---------------------------- MODULE Spec2Model ----------------------------
(***************************************************************************)
(* Model of the FC Groningen scouting dashboard.                           *)
(*                                                                         *)
(* Spec          one Streamlit session of scouting_app_Bram.py: the table  *)
(*               is loaded and scored, masked, sorted, ranked, cut to the  *)
(*               top N and filtered by the three category minimums; a      *)
(*               slider change reruns the script on the cached table.      *)
(* SpecValidate  validate_profiles of scouting_streamlit.py, run key by    *)
(*               key over a metric catalog and a set of position profiles. *)
(* SpecProfile   validate_profiles followed by calls of                    *)
(*               get_metrics_for_profile and build_radar_3_shapes.         *)
(* SpecGradient  the gradient color of both scripts over a sweep of scores.*)
(* SpecApp       one run of either script, from the start (in              *)
(*               scouting_streamlit.py: from validate_profiles) up to the  *)
(*               chart of one player of the leaderboard.                   *)
(* SpecCompare   the comparison view: rows are selected in the two tables *)
(*               and the charts of the first players are drawn.            *)
(* SpecPassword  check_password and the gate in front of the dashboard.    *)
(* SpecPaging    the paging loops of load_data_from_supabase and           *)
(*               load_impect_urls_from_supabase; SpecPagingFair adds that  *)
(*               a started loader keeps running.                           *)
(*                                                                         *)
(* Scores are exact rationals <<numerator, denominator>>; a denominator of *)
(* 0 stands for pandas' NaN.  Floating point rounding is not modelled.     *)
(***************************************************************************)
EXTENDS Integers, Sequences, FiniteSets, TLC

VARIABLES
    pc,                 \* position of the script run
    db,                 \* rows of the player_percentiles table
    tie_order,          \* what the build's quicksort does with equal keys
    df,                 \* the scored table returned by load_data_from_supabase
    df_f,               \* masked, sorted and ranked table
    df_top,             \* the top-N slice, then the filtered leaderboard
    prev_top,           \* leaderboard of the previous script run
    prev_min,           \* the three minimums of the previous script run, if any
    df_again,           \* SpecRank: the ranking of the ranked table
    top_n,              \* "Top N Players" widget
    min_physical,       \* "Physical minimum" slider
    min_attack,         \* "Attack minimum" slider
    min_defense,        \* "Defense minimum" slider
    metrics,            \* validate_profiles: keys of the metric catalog
    profiles,           \* validate_profiles: position -> list of metric keys
    vp_pos,             \* validate_profiles: index of the profile in iteration
    vp_key,             \* validate_profiles: index of the key in iteration
    vp_result,          \* "idle", "running", "returned" or "KeyError"
    app,                \* the variant of the app: "bram" or "streamlit"
    chart,              \* the payload of the chart drawn last, if any
    categorized,        \* the result of get_metrics_for_profile, if any
    base_color,         \* gradient: the base color, as its six hex digits
    score,              \* gradient: the score to color
    color,              \* gradient: the color of score, if computed
    score0,             \* gradient: the first score that was colored
    color0,             \* gradient: the color of score0, if computed
    gate,               \* check_password: secrets, session_state and the run
    paging,             \* the paging loop of a load function
    compare,            \* the comparison view: selections, players, charts
    radar               \* the figure of build_radar_3_shapes, if built

vp_vars == <<metrics, profiles, vp_pos, vp_key, vp_result>>
grad_vars == <<base_color, score, color, score0, color0>>
ext_vars == <<gate, paging, compare, radar>>
view_vars == <<app, chart, categorized, base_color, score, color, score0, color0,
               gate, paging, compare, radar>>
vars == <<pc, db, tie_order, df, df_f, df_top, prev_top, prev_min, df_again,
          top_n, min_physical, min_attack, min_defense,
          metrics, profiles, vp_pos, vp_key, vp_result,
          app, chart, categorized, base_color, score, color, score0, color0,
          gate, paging, compare, radar>>

---------------------------------------------------------------------------
(* Bounds *)

MaxRows == 3
MaxTopN == 3
MaxKeys == 2

---------------------------------------------------------------------------
(* Metric groups of scouting_app_Bram.py *)

PHYSICAL_METRICS ==
    << "total_distance_p90_percentile",
       "running_distance_p90_percentile",
       "hsr_distance_p90_percentile",
       "sprint_distance_p90_percentile" >>

ATTACK_METRICS ==
    << "bypass_midfield_defense_tip_p30_percentile",
       "bypass_opponents_rec_tip_p30_percentile",
       "off_ball_runs_total_tip_p30_percentile",
       "involvement_chances_tip_p30_percentile",
       "ball_loss_removed_teammates_tip_p30_percentile",
       "ball_loss_added_opponents_tip_p30_percentile" >>

DEFENSE_METRICS ==
    << "ball_win_removed_opponents_otip_p30_percentile",
       "ball_win_added_teammates_otip_p30_percentile",
       "ground_duels_won_percentage_percentile",
       "aerial_duels_won_percentage_percentile",
       "press_total_stop_danger_otip_p30_percentile" >>

Range(s) == {s[i] : i \in DOMAIN s}

AllMetrics ==
    Range(PHYSICAL_METRICS) \cup Range(ATTACK_METRICS) \cup Range(DEFENSE_METRICS)

\* A null of the table, NaN after pd.to_numeric(errors="coerce").
NaN == -1

\* The NaN of a computed score.
NaNScore == <<0, 0>>

IsNaN(s) == s[2] = 0

---------------------------------------------------------------------------
(* Input rows *)

\* A table row whose first metrics of each group are p, a and d and whose
\* other metrics are null.
MkRow(in_mask, p, a, d) ==
    [ in_mask |-> in_mask,
      m |-> [ k \in AllMetrics |->
                IF \E i \in DOMAIN p : PHYSICAL_METRICS[i] = k
                  THEN p[CHOOSE i \in DOMAIN p : PHYSICAL_METRICS[i] = k]
                ELSE IF \E i \in DOMAIN a : ATTACK_METRICS[i] = k
                  THEN a[CHOOSE i \in DOMAIN a : ATTACK_METRICS[i] = k]
                ELSE IF \E i \in DOMAIN d : DEFENSE_METRICS[i] = k
                  THEN d[CHOOSE i \in DOMAIN d : DEFENSE_METRICS[i] = k]
                ELSE NaN ] ]

RowPool ==
    { MkRow(TRUE,  <<>>,        <<>>,        <<>>),
      MkRow(TRUE,  <<80>>,      <<40>>,      <<NaN, 20>>),
      MkRow(TRUE,  <<100, 60>>, <<>>,        <<60>>),
      MkRow(TRUE,  <<60>>,      <<100, 50>>, <<75>>),
      MkRow(TRUE,  <<100>>,     <<100>>,     <<0, 80>>),
      MkRow(FALSE, <<100>>,     <<100>>,     <<100>>) }

Tables == UNION { [1..n -> RowPool] : n \in 0..MaxRows }

Thresholds == {0, 50}

---------------------------------------------------------------------------
(* Scoring: load_data_from_supabase *)

RECURSIVE SumOver(_, _)
SumOver(f, S) ==
    IF S = {} THEN 0
    ELSE LET x == CHOOSE y \in S : TRUE IN f[x] + SumOver(f, S \ {x})

RECURSIVE ProdOver(_, _)
ProdOver(f, S) ==
    IF S = {} THEN 1
    ELSE LET x == CHOOSE y \in S : TRUE IN f[x] * ProdOver(f, S \ {x})

\* The mean of a row over cols with every NaN counted as 0.
MeanSkipNaZeroFill(m, cols) ==
    << SumOver([i \in DOMAIN cols |-> IF m[cols[i]] = NaN THEN 0 ELSE m[cols[i]]],
               DOMAIN cols),
       Len(cols) >>

\* df[cols].mean(axis=1) on one row: pandas skips NaN (skipna=True) and gives
\* NaN when nothing is left.
MeanSkipNa(m, cols) ==
    LET present == {i \in DOMAIN cols : m[cols[i]] # NaN}
    IN  IF present = {} THEN NaNScore
        ELSE << SumOver([i \in DOMAIN cols |-> m[cols[i]]], present),
                Cardinality(present) >>

\* The mean of all the scores with every NaN counted as 0.
MeanOfScoresZeroFill(ss) ==
    LET z   == [i \in DOMAIN ss |-> IF IsNaN(ss[i]) THEN <<0, 1>> ELSE ss[i]]
        den == ProdOver([i \in DOMAIN z |-> z[i][2]], DOMAIN z)
        num == SumOver([i \in DOMAIN z |->
                          z[i][1] * ProdOver([j \in DOMAIN z |-> z[j][2]],
                                             DOMAIN z \ {i})],
                       DOMAIN z)
    IN  << num, den * Len(z) >>

\* df[['physical', 'attack', 'defense']].mean(axis=1) on one row: the mean of
\* the scores that are not NaN, as one fraction.
MeanOfScores(ss) ==
    LET defd == {i \in DOMAIN ss : ~IsNaN(ss[i])}
        den  == ProdOver([i \in DOMAIN ss |-> ss[i][2]], defd)
        num  == SumOver([i \in DOMAIN ss |->
                           ss[i][1] * ProdOver([j \in DOMAIN ss |-> ss[j][2]],
                                               defd \ {i})],
                        defd)
    IN  IF defd = {} THEN NaNScore
        ELSE << num, den * Cardinality(defd) >>

\* One row of the DataFrame built by load_data_from_supabase: the table row,
\* its RangeIndex label and the four aggregate columns.
ScoreRow(r, i) ==
    LET physical == MeanSkipNa(r.m, PHYSICAL_METRICS)
        attack   == MeanSkipNa(r.m, ATTACK_METRICS)
        defense  == MeanSkipNa(r.m, DEFENSE_METRICS)
    IN  [ index    |-> i - 1,
          in_mask  |-> r.in_mask,
          m        |-> r.m,
          physical |-> physical,
          attack   |-> attack,
          defense  |-> defense,
          total    |-> MeanOfScores(<<physical, attack, defense>>),
          original_rank |-> 0 ]

\* Comparisons of scores.
ScoreGT(a, b) == ~IsNaN(a) /\ ~IsNaN(b) /\ a[1] * b[2] > b[1] * a[2]
ScoreEQ(a, b) ==
    \/ IsNaN(a) /\ IsNaN(b)
    \/ ~IsNaN(a) /\ ~IsNaN(b) /\ a[1] * b[2] = b[1] * a[2]

\* column >= minimum: False on NaN.
AtLeast(s, t) == ~IsNaN(s) /\ s[1] >= t * s[2]

---------------------------------------------------------------------------
(* Ranking and filtering *)

\* df.loc[mask]: the rows that match the sidebar filters, in table order.
Masked(d) == SelectSeq(d, LAMBDA r : r.in_mask)

\* The order of an ascending sort.
PlacedBeforeAscending(x, i, y, j, tie) ==
    \/ ~IsNaN(x.total) /\ IsNaN(y.total)
    \/ IsNaN(x.total) /\ IsNaN(y.total) /\ i < j
    \/ ScoreGT(y.total, x.total)
    \/ /\ ~IsNaN(x.total) /\ ScoreEQ(x.total, y.total)
       /\ IF tie = "input" THEN i < j ELSE i > j

\* The row x is placed before the row y by
\* sort_values("total", ascending=False, na_position="last"), at positions i
\* and j of the unsorted frame.  pandas sorts the rows that have a total with
\* numpy's default quicksort, which promises no order among equal keys, and
\* appends the rows without a total in their original order.
PlacedBefore(x, i, y, j, tie) ==
    \/ ~IsNaN(x.total) /\ IsNaN(y.total)
    \/ IsNaN(x.total) /\ IsNaN(y.total) /\ i < j
    \/ ScoreGT(x.total, y.total)
    \/ /\ ~IsNaN(x.total) /\ ScoreEQ(x.total, y.total)
       /\ IF tie = "input" THEN i < j ELSE i > j

SortValues(d, tie) ==
    LET pos(i) == 1 + Cardinality({j \in DOMAIN d :
                                     PlacedBefore(d[j], j, d[i], i, tie)})
    IN  [k \in DOMAIN d |-> d[CHOOSE i \in DOMAIN d : pos(i) = k]]

\* df_f["original_rank"] = range(1, len(df_f) + 1)
AssignRank(d) == [k \in DOMAIN d |-> [d[k] EXCEPT !.original_rank = k]]

\* A slice that is one row too long.
HeadRowsOneMore(d, n) == SubSeq(d, 1, IF n + 1 < Len(d) THEN n + 1 ELSE Len(d))

\* df_f.head(int(top_n))
HeadRows(d, n) == SubSeq(d, 1, IF n < Len(d) THEN n ELSE Len(d))

\* The minimums followed by a renumbering of the rows that are left.
ApplyMinimumsRenumbered(d, mp, ma, md) ==
    AssignRank(SelectSeq(d, LAMBDA r : /\ AtLeast(r.physical, mp)
                                       /\ AtLeast(r.attack, ma)
                                       /\ AtLeast(r.defense, md)))

\* d[(d["physical"] >= min_physical) & (d["attack"] >= min_attack) &
\*   (d["defense"] >= min_defense)]
ApplyMinimums(d, mp, ma, md) ==
    SelectSeq(d, LAMBDA r : /\ AtLeast(r.physical, mp)
                            /\ AtLeast(r.attack, ma)
                            /\ AtLeast(r.defense, md))

---------------------------------------------------------------------------
(* The script run of scouting_app_Bram.py *)

PipeInit ==
    /\ pc = "start"
    /\ db \in Tables
    /\ tie_order \in {"input", "reversed"}
    /\ df = <<>>
    /\ df_f = <<>>
    /\ df_top = <<>>
    /\ prev_top = <<>>
    /\ prev_min = <<>>
    /\ df_again = <<>>
    /\ top_n \in 1..MaxTopN
    /\ min_physical = 0
    /\ min_attack = 0
    /\ min_defense = 0

VpIdle ==
    /\ metrics = {}
    /\ profiles = <<>>
    /\ vp_pos = 0
    /\ vp_key = 0
    /\ vp_result = "idle"

\* No gradient color is asked for.
GradIdle ==
    /\ base_color = <<>>
    /\ score = 0
    /\ color = <<>>
    /\ score0 = 0
    /\ color0 = <<>>

\* No password gate, paging loop, comparison view or radar is under way.
ExtIdle ==
    /\ gate = <<>>
    /\ paging = <<>>
    /\ compare = <<>>
    /\ radar = <<>>

\* No chart is drawn and get_metrics_for_profile has not been called.
ViewIdle ==
    /\ chart = <<>>
    /\ categorized = <<>>
    /\ GradIdle
    /\ ExtIdle

Init == PipeInit /\ VpIdle /\ app = "bram" /\ ViewIdle

\* df = load_data_from_supabase().  Without rows the frame has no columns,
\* df[PHYSICAL_METRICS] raises, and the handler reports and stops the run.
Load ==
    /\ pc = "start"
    /\ IF Len(db) = 0
         THEN /\ pc' = "load_failed"
              /\ df' = <<>>
         ELSE /\ pc' = "loaded"
              /\ df' = [i \in DOMAIN db |-> ScoreRow(db[i], i)]
    /\ UNCHANGED <<db, tie_order, df_f, df_top, prev_top, prev_min, df_again,
                   top_n, min_physical, min_attack, min_defense>>
    /\ UNCHANGED vp_vars
    /\ UNCHANGED view_vars

\* df_f = df.loc[mask].copy(); sort_values; original_rank
Rank ==
    /\ pc = "loaded"
    /\ df_f' = AssignRank(SortValues(Masked(df), tie_order))
    /\ pc' = "ranked"
    /\ UNCHANGED <<db, tie_order, df, df_top, prev_top, prev_min, df_again,
                   top_n, min_physical, min_attack, min_defense>>
    /\ UNCHANGED vp_vars
    /\ UNCHANGED view_vars

\* df_top = df_f.head(int(top_n)).copy()
TopN ==
    /\ pc = "ranked"
    /\ df_top' = HeadRows(df_f, top_n)
    /\ pc' = "top"
    /\ UNCHANGED <<db, tie_order, df, df_f, prev_top, prev_min, df_again,
                   top_n, min_physical, min_attack, min_defense>>
    /\ UNCHANGED vp_vars
    /\ UNCHANGED view_vars

\* The minimums without the empty check: the run goes on to the table.
FilterNoStop ==
    /\ pc = "top"
    /\ df_top' = ApplyMinimums(df_top, min_physical, min_attack, min_defense)
    /\ df_f' = ApplyMinimums(df_f, min_physical, min_attack, min_defense)
    /\ pc' = "table"
    /\ UNCHANGED <<db, tie_order, df, prev_top, prev_min, df_again,
                   top_n, min_physical, min_attack, min_defense>>
    /\ UNCHANGED vp_vars
    /\ UNCHANGED view_vars

\* The minimums on df_top and on df_f, then the empty check with st.stop().
Filter ==
    /\ pc = "top"
    /\ df_top' = ApplyMinimums(df_top, min_physical, min_attack, min_defense)
    /\ df_f' = ApplyMinimums(df_f, min_physical, min_attack, min_defense)
    /\ pc' = IF Len(df_top') = 0 THEN "no_match" ELSE "table"
    /\ UNCHANGED <<db, tie_order, df, prev_top, prev_min, df_again,
                   top_n, min_physical, min_attack, min_defense>>
    /\ UNCHANGED vp_vars
    /\ UNCHANGED view_vars

\* The user moves one of the three sliders: Streamlit runs the script again,
\* and load_data_from_supabase returns the frame it has cached.
SetMinimum ==
    /\ pc \in {"table", "no_match"}
    /\ \E c \in {"physical", "attack", "defense"}, v \in Thresholds :
         /\ min_physical' = IF c = "physical" THEN v ELSE min_physical
         /\ min_attack' = IF c = "attack" THEN v ELSE min_attack
         /\ min_defense' = IF c = "defense" THEN v ELSE min_defense
         /\ <<min_physical', min_attack', min_defense'>>
              # <<min_physical, min_attack, min_defense>>
    /\ prev_top' = df_top
    /\ prev_min' = <<min_physical, min_attack, min_defense>>
    /\ pc' = "loaded"
    /\ df_f' = <<>>
    /\ df_top' = <<>>
    /\ UNCHANGED <<db, tie_order, df, top_n, df_again>>
    /\ UNCHANGED vp_vars
    /\ UNCHANGED view_vars

Next == Load \/ Rank \/ TopN \/ Filter \/ SetMinimum

Spec == Init /\ [][Next]_vars

---------------------------------------------------------------------------
(* Ranking applied to its own result *)

\* The sort and the numbering of Rank applied to the ranked table df_f.
RankAgain ==
    /\ pc = "ranked"
    /\ df_again' = AssignRank(SortValues(df_f, tie_order))
    /\ pc' = "ranked_again"
    /\ UNCHANGED <<db, tie_order, df, df_f, df_top, prev_top, prev_min,
                   top_n, min_physical, min_attack, min_defense>>
    /\ UNCHANGED vp_vars
    /\ UNCHANGED view_vars

NextRank == Load \/ Rank \/ RankAgain

SpecRank == Init /\ [][NextRank]_vars

---------------------------------------------------------------------------
(* validate_profiles of scouting_streamlit.py *)

\* Metric keys a catalog or a profile may hold.
KeyUniverse ==
    { "total_distance_p90_percentile",
      "hsr_distance_p90_percentile",
      "ground_duels_won_p90_percentile" }

\* The profiles, in the order in which profiles.items() yields them.
ProfileOrder == << "DMCM", "LB" >>

KeyLists == UNION { [1..n -> KeyUniverse] : n \in 0..MaxKeys }

PipeIdle ==
    /\ pc = "idle"
    /\ db = <<>>
    /\ tie_order = "input"
    /\ df = <<>>
    /\ df_f = <<>>
    /\ df_top = <<>>
    /\ prev_top = <<>>
    /\ prev_min = <<>>
    /\ df_again = <<>>
    /\ top_n = 1
    /\ min_physical = 0
    /\ min_attack = 0
    /\ min_defense = 0

\* The call validate_profiles(metrics, profiles), before its first step.
InitValidate ==
    /\ PipeIdle
    /\ metrics \in SUBSET KeyUniverse
    /\ profiles \in [Range(ProfileOrder) -> KeyLists]
    /\ vp_pos = 1
    /\ vp_key = 1
    /\ vp_result = "running"
    /\ app = "streamlit"
    /\ ViewIdle

pipe_vars == <<pc, db, tie_order, df, df_f, df_top, prev_top, prev_min, df_again,
               top_n, min_physical, min_attack, min_defense>>

\* A test that finds every key defined.
NotDefinedNever(key, ms) == FALSE

\* key not in metrics
NotDefined(key, ms) == key \notin ms

\* One pass of the inner loop: the key is tested, and an undefined key raises.
ValidateKey ==
    /\ vp_result = "running"
    /\ vp_pos <= Len(ProfileOrder)
    /\ vp_key <= Len(profiles[ProfileOrder[vp_pos]])
    /\ IF NotDefined(profiles[ProfileOrder[vp_pos]][vp_key], metrics)
         THEN /\ vp_result' = "KeyError"
              /\ UNCHANGED <<vp_pos, vp_key>>
         ELSE /\ vp_key' = vp_key + 1
              /\ UNCHANGED <<vp_pos, vp_result>>
    /\ UNCHANGED <<metrics, profiles>>
    /\ UNCHANGED pipe_vars
    /\ UNCHANGED view_vars

\* The inner loop is done: the outer loop takes the next profile.
ValidateNextProfile ==
    /\ vp_result = "running"
    /\ vp_pos <= Len(ProfileOrder)
    /\ vp_key > Len(profiles[ProfileOrder[vp_pos]])
    /\ vp_pos' = vp_pos + 1
    /\ vp_key' = 1
    /\ UNCHANGED <<metrics, profiles, vp_result>>
    /\ UNCHANGED pipe_vars
    /\ UNCHANGED view_vars

\* The outer loop is done: the function returns.
ValidateReturn ==
    /\ vp_result = "running"
    /\ vp_pos > Len(ProfileOrder)
    /\ vp_result' = "returned"
    /\ UNCHANGED <<metrics, profiles, vp_pos, vp_key>>
    /\ UNCHANGED pipe_vars
    /\ UNCHANGED view_vars

NextValidate == ValidateKey \/ ValidateNextProfile \/ ValidateReturn

SpecValidate == InitValidate /\ [][NextValidate]_vars

---------------------------------------------------------------------------
(* The gradient colors of create_polarized_bar_chart *)

\* The hex digits of '#3E8C5E', '#E83F2A' and '#F2B533'.
green == <<3, 14, 8, 12, 5, 14>>
red == <<14, 8, 3, 15, 2, 10>>
yellow == <<15, 2, 11, 5, 3, 3>>

\* Default arguments of get_gradient_color; get_color divides by 100.
min_score == 0
max_score == 100

\* The scores asked for reach this far below min_score and above max_score.
OverRange == 2

ScoreInputs == (min_score - OverRange)..(max_score + OverRange)

\* int(x) of the quotient a / b, b > 0: the fraction is cut off towards 0.
IntOf(a, b) == IF a >= 0 THEN a \div b ELSE -((-a) \div b)

\* int(hex[i:i+2], 16) for i in (0, 2, 4)
HexToRgb(h) == <<16 * h[1] + h[2], 16 * h[3] + h[4], 16 * h[5] + h[6]>>

\* f'#{r:02x}{g:02x}{b:02x}'
RgbToHex(c) ==
    <<c[1] \div 16, c[1] % 16, c[2] \div 16, c[2] % 16, c[3] \div 16, c[3] % 16>>

\* A tint that goes half of the way to white.
lighten_color_half(hex_color) ==
    LET c == HexToRgb(hex_color)
    IN  RgbToHex([i \in 1..3 |-> IntOf(10 * c[i] + 5 * (255 - c[i]), 10)])

\* lighten_color(hex_color, amount=0.6): every channel goes 6/10 of the way
\* to 255.
lighten_color(hex_color) ==
    LET c == HexToRgb(hex_color)
    IN  RgbToHex([i \in 1..3 |-> IntOf(10 * c[i] + 6 * (255 - c[i]), 10)])

\* The normalized score without the clamp.
NormalizedUnclamped(s) == s - min_score

\* max(0, min(1, (score - min_score) / (max_score - min_score))), in units of
\* 1 / (max_score - min_score).
Normalized(s) ==
    LET n == s - min_score
        one == max_score - min_score
    IN  IF n < 0 THEN 0 ELSE IF n > one THEN one ELSE n

\* get_gradient_color(base_color, score) of scouting_app_Bram.py, the
\* 'rgb(r,g,b)' it returns as <<r, g, b>>.
get_gradient_color(base, s) ==
    LET one   == max_score - min_score
        n     == Normalized(s)
        light == HexToRgb(lighten_color(base))
        dark  == HexToRgb(base)
    IN  [i \in 1..3 |-> IntOf(one * light[i] + (dark[i] - light[i]) * n, one)]

\* get_color(score, base_hex) of scouting_streamlit.py.
get_color(s, base_hex) ==
    LET one  == max_score - min_score
        n    == Normalized(s)
        base == HexToRgb(base_hex)
    IN  [i \in 1..3 |-> IntOf(one * 255 - (255 - base[i]) * n, one)]

InitGradient ==
    /\ PipeIdle
    /\ VpIdle
    /\ app \in {"bram", "streamlit"}
    /\ chart = <<>>
    /\ categorized = <<>>
    /\ base_color \in {green, red, yellow}
    /\ score \in ScoreInputs
    /\ score0 = score
    /\ color = <<>>
    /\ color0 = <<>>
    /\ ExtIdle

\* scouting_app_Bram.py colors the score.
GetGradientColor ==
    /\ app = "bram"
    /\ base_color # <<>>
    /\ color = <<>>
    /\ color' = get_gradient_color(base_color, score)
    /\ color0' = IF color0 = <<>> THEN color' ELSE color0
    /\ UNCHANGED <<app, chart, categorized, base_color, score, score0>>
    /\ UNCHANGED ext_vars
    /\ UNCHANGED pipe_vars
    /\ UNCHANGED vp_vars

\* scouting_streamlit.py colors the score.
GetColor ==
    /\ app = "streamlit"
    /\ base_color # <<>>
    /\ color = <<>>
    /\ color' = get_color(score, base_color)
    /\ color0' = IF color0 = <<>> THEN color' ELSE color0
    /\ UNCHANGED <<app, chart, categorized, base_color, score, score0>>
    /\ UNCHANGED ext_vars
    /\ UNCHANGED pipe_vars
    /\ UNCHANGED vp_vars

\* The next call is for the next larger score.
RaiseScore ==
    /\ color # <<>>
    /\ score < max_score + OverRange
    /\ score' = score + 1
    /\ color' = <<>>
    /\ UNCHANGED <<app, chart, categorized, base_color, score0, color0>>
    /\ UNCHANGED ext_vars
    /\ UNCHANGED pipe_vars
    /\ UNCHANGED vp_vars

NextGradient == GetGradientColor \/ GetColor \/ RaiseScore

SpecGradient == InitGradient /\ [][NextGradient]_vars

---------------------------------------------------------------------------
(* The metric catalog and the position profiles of scouting_streamlit.py *)

\* The keys of the metrics dict whose category is MetricCategory.PHYSICAL,
\* ATTACK and DEFENSE.
PHYSICAL_KEYS ==
    { "total_distance_p90_percentile",
       "running_distance_p90_percentile",
       "hsr_distance_p90_percentile",
       "sprint_distance_p90_percentile",
       "hi_distance_p90_percentile",
       "total_minutes_percentile" }

ATTACK_KEYS ==
    { "bypass_midfield_defense_tip_p30_percentile",
       "bypass_midfield_defense_pass_tip_p30_percentile",
       "bypass_midfield_defense_dribble_tip_p30_percentile",
       "bypass_opponents_rec_tip_p30_percentile",
       "involvement_chances_tip_p30_percentile",
       "off_ball_runs_total_tip_p30_percentile" }

DEFENSE_KEYS ==
    { "ball_win_removed_opponents_otip_p30_percentile",
       "ball_win_added_teammates_otip_p30_percentile",
       "ground_duels_won_p90_percentile",
       "ground_duels_won_percentage_percentile",
       "aerial_duels_won_p90_percentile",
       "aerial_duels_won_percentage_percentile",
       "press_total_count_otip_p30_percentile",
       "press_total_stop_danger_otip_p30_percentile" }

\* The keys of the metrics dict as the source defines it.
MetricKeys == PHYSICAL_KEYS \cup ATTACK_KEYS \cup DEFENSE_KEYS

\* metrics[key].category.name.lower()
CategoryName(key) ==
    IF key \in PHYSICAL_KEYS THEN "physical"
    ELSE IF key \in ATTACK_KEYS THEN "attack"
    ELSE "defense"

\* position_profiles["DMCM"] as the source defines it.
DMCM ==
    << "total_distance_p90_percentile",
       "running_distance_p90_percentile",
       "hi_distance_p90_percentile",
       "total_minutes_percentile",
       "bypass_midfield_defense_pass_tip_p30_percentile",
       "bypass_midfield_defense_dribble_tip_p30_percentile",
       "bypass_opponents_rec_tip_p30_percentile",
       "off_ball_runs_total_tip_p30_percentile",
       "involvement_chances_tip_p30_percentile",
       "ball_win_removed_opponents_otip_p30_percentile",
       "ball_win_added_teammates_otip_p30_percentile",
       "ground_duels_won_p90_percentile",
       "aerial_duels_won_p90_percentile",
       "press_total_count_otip_p30_percentile" >>

\* metrics[key].label.replace('\n', '<br>'); a dash of the source that is
\* not ASCII is written '-'.
MetricLabel(key) ==
    IF key = "total_distance_p90_percentile"
      THEN "Totale<br>afstand"
    ELSE IF key = "running_distance_p90_percentile"
      THEN "15-20km/u<br>afstand"
    ELSE IF key = "hsr_distance_p90_percentile"
      THEN "20-25km/u<br>afstand"
    ELSE IF key = "sprint_distance_p90_percentile"
      THEN "25+km/u<br>afstand"
    ELSE IF key = "hi_distance_p90_percentile"
      THEN "20+km/u<br>afstand"
    ELSE IF key = "total_minutes_percentile"
      THEN "Totale<br>speeltijd"
    ELSE IF key = "bypass_midfield_defense_tip_p30_percentile"
      THEN "Uitgespeelde<br>tegenstanders"
    ELSE IF key = "bypass_midfield_defense_pass_tip_p30_percentile"
      THEN "Uitgespeelde<br>tegenstanders<br>(pass)"
    ELSE IF key = "bypass_midfield_defense_dribble_tip_p30_percentile"
      THEN "Uitgespeelde<br>tegenstanders<br>(dribbel)"
    ELSE IF key = "bypass_opponents_rec_tip_p30_percentile"
      THEN "Uitgespeelde<br>tegenstanders<br>als ontvanger"
    ELSE IF key = "involvement_chances_tip_p30_percentile"
      THEN "Betrokkenheid<br>kansen"
    ELSE IF key = "off_ball_runs_total_tip_p30_percentile"
      THEN "Loopacties<br>zonder bal"
    ELSE IF key = "ball_win_removed_opponents_otip_p30_percentile"
      THEN "Aanvallende<br>veroveringen"
    ELSE IF key = "ball_win_added_teammates_otip_p30_percentile"
      THEN "Verdedigende<br>veroveringen"
    ELSE IF key = "ground_duels_won_p90_percentile"
      THEN "Gewonnen<br>grondduels"
    ELSE IF key = "ground_duels_won_percentage_percentile"
      THEN "Winstpercentage<br>grondduels"
    ELSE IF key = "aerial_duels_won_p90_percentile"
      THEN "Gewonnen<br>luchtduels"
    ELSE IF key = "aerial_duels_won_percentage_percentile"
      THEN "Winstpercentage<br>luchtduels"
    ELSE IF key = "press_total_count_otip_p30_percentile"
      THEN "Druk<br>zetten"
    ELSE IF key = "press_total_stop_danger_otip_p30_percentile"
      THEN "Gestopt gevaar<br>met verdedigende acties"
    ELSE key

---------------------------------------------------------------------------
(* get_metrics_for_profile of scouting_streamlit.py *)

MaxProfileLen == 3

\* Keys a profile under test may list: two physical ones, a defense one and
\* an attack one.
ProfileKeyPool == KeyUniverse \cup {"bypass_opponents_rec_tip_p30_percentile"}

ProfileLists == UNION { [1..n -> ProfileKeyPool] : n \in 0..MaxProfileLen }

\* The metrics dict of the source, and the same dict with one entry deleted.
Catalogs == { MetricKeys, MetricKeys \ {"hsr_distance_p90_percentile"} }

\* Arguments of get_metrics_for_profile; no catalog registers "GK".
ProfileNames == { "DMCM", "LB", "GK" }

\* The module is imported: validate_profiles runs on its catalog.
InitProfile ==
    /\ PipeIdle
    /\ metrics \in Catalogs
    /\ profiles \in { [DMCM |-> a, LB |-> b] : a \in ProfileLists, b \in KeyLists }
    /\ vp_pos = 1
    /\ vp_key = 1
    /\ vp_result = "running"
    /\ app = "streamlit"
    /\ ViewIdle

\* A script that goes on whatever validate_profiles does.
ValidationPassedOrNot == vp_result \in {"running", "returned", "KeyError"}

\* The statements after the call validate_profiles(metrics, position_profiles)
\* run once the call has returned; an exception ends the script.
ValidationPassed == vp_result = "returned"

\* position_profiles.get(profile_name, [])
GetProfile(profile_name) ==
    IF profile_name \in DOMAIN profiles THEN profiles[profile_name] ELSE <<>>

Reverse(s) == [i \in 1..Len(s) |-> s[Len(s) + 1 - i]]

\* Category lists that are built by inserting each key at the front.
get_metrics_for_profile_prepend(profile_name) ==
    LET metric_keys == GetProfile(profile_name)
        of(cat) == Reverse(SelectSeq(metric_keys,
                              LAMBDA key : /\ key \in metrics
                                           /\ CategoryName(key) = cat))
    IN  [ physical |-> of("physical"),
          attack   |-> of("attack"),
          defense  |-> of("defense") ]

\* get_metrics_for_profile(profile_name): every key of the profile that is in
\* metrics is appended to the list of its category.
get_metrics_for_profile(profile_name) ==
    LET metric_keys == GetProfile(profile_name)
        of(cat) == SelectSeq(metric_keys,
                      LAMBDA key : /\ key \in metrics
                                   /\ CategoryName(key) = cat)
    IN  [ physical |-> of("physical"),
          attack   |-> of("attack"),
          defense  |-> of("defense") ]

\* A call of get_metrics_for_profile; the function has no raise statement and
\* no lookup that can fail, so it returns.
GetMetricsForProfile ==
    /\ ValidationPassed
    /\ categorized = <<>>
    /\ \E profile_name \in ProfileNames :
         categorized' = [ profile_name |-> profile_name,
                          result       |-> "returned",
                          categories   |-> get_metrics_for_profile(profile_name) ]
    /\ UNCHANGED <<app, chart, base_color, score, color, score0, color0>>
    /\ UNCHANGED ext_vars
    /\ UNCHANGED pipe_vars
    /\ UNCHANGED vp_vars

\* add_group(metric_keys, name, line_color, fill_rgba) of
\* build_radar_3_shapes, on the traces the figure has so far: nothing for an
\* empty list, else one trace with the values of the row (0 for a missing or
\* null one) and the first point repeated to close the shape.  theta holds
\* the labels of the keys and is kept as the keys.
add_group(traces, row, metric_keys, name) ==
    IF metric_keys = <<>>
      THEN traces
      ELSE LET r_vals == [i \in DOMAIN metric_keys |->
                            IF /\ metric_keys[i] \in DOMAIN row.m
                               /\ row.m[metric_keys[i]] # NaN
                              THEN row.m[metric_keys[i]] ELSE 0]
           IN  Append(traces, [ name  |-> name,
                                theta |-> Append(metric_keys, metric_keys[1]),
                                r     |-> Append(r_vals, r_vals[1]) ])

\* The key and the name of the three layers of build_radar_3_shapes.
layers ==
    << <<"physical", "Fysiek">>,
       <<"attacking", "Aanval">>,
       <<"defending", "Verdediging">> >>

\* build_radar_3_shapes(row, profile_name): the traces of the figure.
build_radar_3_shapes(row, profile_name) ==
    LET categorized_metrics == get_metrics_for_profile(profile_name)
        \* categorized_metrics.get(key, [])
        group(key) == IF key \in DOMAIN categorized_metrics
                        THEN categorized_metrics[key] ELSE <<>>
        first  == add_group(<<>>, row, group(layers[1][1]), layers[1][2])
        second == add_group(first, row, group(layers[2][1]), layers[2][2])
    IN  add_group(second, row, group(layers[3][1]), layers[3][2])

\* The rows a radar is drawn for.
RadarRows ==
    { [ m |-> [k \in MetricKeys |-> IF k \in DOMAIN vals THEN vals[k] ELSE NaN] ] :
        vals \in { ("total_distance_p90_percentile" :> 80)
                     @@ ("bypass_opponents_rec_tip_p30_percentile" :> 40)
                     @@ ("ground_duels_won_p90_percentile" :> 20),
                   ("hi_distance_p90_percentile" :> 60) } }

\* A call of build_radar_3_shapes.
BuildRadar ==
    /\ ValidationPassed
    /\ radar = <<>>
    /\ \E profile_name \in ProfileNames, row \in RadarRows :
         radar' = [ profile_name |-> profile_name,
                    row          |-> row,
                    traces       |-> build_radar_3_shapes(row, profile_name) ]
    /\ UNCHANGED <<app, chart, categorized, base_color, score, color, score0, color0>>
    /\ UNCHANGED <<gate, paging, compare>>
    /\ UNCHANGED pipe_vars
    /\ UNCHANGED vp_vars

NextProfile ==
    \/ ValidateKey
    \/ ValidateNextProfile
    \/ ValidateReturn
    \/ GetMetricsForProfile
    \/ BuildRadar

SpecProfile == InitProfile /\ [][NextProfile]_vars

---------------------------------------------------------------------------
(* The script run of scouting_streamlit.py *)

\* A row of player_percentiles as scouting_streamlit.py reads it.  The text
\* 'NAME' of position_profile is <<"NAME", "">> and 'NAME (X)' is
\* <<"NAME", "X">>.  stored holds the columns physical, attacking, defending
\* and total of the table; vals gives the metrics that are not null.
StRow(in_mask, position_profile, stored, vals) ==
    [ in_mask          |-> in_mask,
      position_profile |-> position_profile,
      m        |-> [k \in MetricKeys |-> IF k \in DOMAIN vals THEN vals[k] ELSE NaN],
      physical |-> stored[1],
      attack   |-> stored[2],
      defense  |-> stored[3],
      total    |-> stored[4] ]

StRowPool ==
    { StRow(TRUE, <<"DMCM", "">>,
            << <<70, 1>>, <<40, 1>>, <<20, 1>>, <<130, 3>> >>,
            ("total_distance_p90_percentile" :> 80)
              @@ ("hi_distance_p90_percentile" :> 60)
              @@ ("bypass_opponents_rec_tip_p30_percentile" :> 40)
              @@ ("ground_duels_won_p90_percentile" :> 20)),
      StRow(TRUE, <<"GK", "">>,
            << <<90, 1>>, <<90, 1>>, <<90, 1>>, <<90, 1>> >>,
            ("total_distance_p90_percentile" :> 90)
              @@ ("bypass_opponents_rec_tip_p30_percentile" :> 90)
              @@ ("ground_duels_won_p90_percentile" :> 90)),
      StRow(TRUE, <<"DMCM", "DEF">>,
            << <<10, 1>>, <<10, 1>>, <<10, 1>>, <<10, 1>> >>,
            ("total_distance_p90_percentile" :> 100)
              @@ ("hi_distance_p90_percentile" :> 100)
              @@ ("bypass_opponents_rec_tip_p30_percentile" :> 100)
              @@ ("ground_duels_won_p90_percentile" :> 100)),
      StRow(FALSE, <<"DMCM", "">>,
            << <<100, 1>>, <<100, 1>>, <<100, 1>>, <<100, 1>> >>,
            [k \in MetricKeys |-> 100]) }

\* The metric columns of the table: all of the catalog, or all but one.
StColumnSets == { MetricKeys, MetricKeys \ {"hi_distance_p90_percentile"} }

\* The row with the metric columns cols only.
Restrict(r, cols) == [r EXCEPT !.m = [k \in cols |-> r.m[k]]]

StTables ==
    UNION { [1..n -> {Restrict(r, cols) : r \in StRowPool}] :
              n \in 0..MaxRows, cols \in StColumnSets }

\* The catalogs the module may be edited to: the one of the source; one with
\* a short DMCM profile that mixes the categories; the one of the source with
\* a metric deleted that DMCM lists; one whose DMCM profile has no defense
\* metric.
AppCatalogs ==
    { [ metrics  |-> MetricKeys,
        profiles |-> [DMCM |-> DMCM, LB |-> <<>>] ],
      [ metrics  |-> MetricKeys,
        profiles |-> [DMCM |-> << "ground_duels_won_p90_percentile",
                                  "total_distance_p90_percentile",
                                  "bypass_opponents_rec_tip_p30_percentile",
                                  "hi_distance_p90_percentile" >>,
                      LB   |-> << "total_distance_p90_percentile" >>] ],
      [ metrics  |-> MetricKeys \ {"total_minutes_percentile"},
        profiles |-> [DMCM |-> DMCM, LB |-> <<>>] ],
      [ metrics  |-> MetricKeys,
        profiles |-> [DMCM |-> << "total_distance_p90_percentile",
                                  "bypass_opponents_rec_tip_p30_percentile" >>,
                      LB   |-> <<>>] ] }

\* The script starts: the module level call of validate_profiles is next.
StInit ==
    /\ app = "streamlit"
    /\ pc = "idle"
    /\ db = <<>>
    /\ tie_order \in {"input", "reversed"}
    /\ df = <<>>
    /\ df_f = <<>>
    /\ df_top = <<>>
    /\ prev_top = <<>>
    /\ prev_min = <<>>
    /\ df_again = <<>>
    /\ top_n \in 1..MaxTopN
    /\ min_physical = 0
    /\ min_attack = 0
    /\ min_defense = 0
    /\ \E c \in AppCatalogs : metrics = c.metrics /\ profiles = c.profiles
    /\ vp_pos = 1
    /\ vp_key = 1
    /\ vp_result = "running"
    /\ ViewIdle

\* positions: the values of position_profile in the table, which are the
\* options and the default of the "Positie (profiel)" multiselect.
Positions(t) == {t[i].position_profile : i \in DOMAIN t}

\* One row of df_player_data: the table row as it is stored, and whether the
\* mask selects it.
StFrameRow(r, i, dropdown_positions) ==
    [ index            |-> i - 1,
      in_mask          |-> r.in_mask /\ r.position_profile \in dropdown_positions,
      position_profile |-> r.position_profile,
      m                |-> r.m,
      physical         |-> r.physical,
      attack           |-> r.attack,
      defense          |-> r.defense,
      total            |-> r.total,
      original_rank    |-> 0 ]

\* df_player_data = load_data_from_supabase().  A table without rows gives a
\* frame without columns, and df_player_data["competition_name"] raises.
StLoad ==
    /\ app = "streamlit"
    /\ ValidationPassed
    /\ pc = "idle"
    /\ \E t \in StTables :
         /\ db' = t
         /\ IF Len(t) = 0
              THEN /\ pc' = "load_failed"
                   /\ df' = <<>>
              ELSE /\ pc' = "loaded"
                   /\ df' = [i \in DOMAIN t |-> StFrameRow(t[i], i, Positions(t))]
    /\ UNCHANGED <<tie_order, df_f, df_top, prev_top, prev_min, df_again,
                   top_n, min_physical, min_attack, min_defense>>
    /\ UNCHANGED vp_vars
    /\ UNCHANGED view_vars

---------------------------------------------------------------------------
(* create_polarized_bar_chart *)

\* s[a:b] of Python for 0 <= a <= b.
Slice(s, a, b) == SubSeq(s, a + 1, IF b < Len(s) THEN b ELSE Len(s))

\* s[-n:] of Python for n >= 0: the last n elements, and all of s for n = 0
\* because -0 is 0.
SliceLast(s, n) ==
    IF n = 0 \/ n >= Len(s) THEN s ELSE SubSeq(s, Len(s) - n + 1, Len(s))

\* The score the gradient is computed from: min(1, nan) is 1 in Python, so a
\* NaN value gets the color of max_score.
ColorScore(v) == IF v = NaN THEN max_score ELSE v

\* np.mean of a list of values: NaN if one of them is NaN.
NpMean(vs) ==
    IF \E i \in DOMAIN vs : vs[i] = NaN THEN NaNScore
    ELSE << SumOver(vs, DOMAIN vs), Len(vs) >>

\* np.mean of a list of means: NaN if one of them is NaN.
NpMeanOfScores(ss) ==
    IF \E i \in DOMAIN ss : IsNaN(ss[i]) THEN NaNScore ELSE MeanOfScores(ss)

\* LABELS.get(col, col).replace('\n', '<br>')
LABELS(col) ==
    IF col = "total_distance_p90_percentile"
      THEN "Totale<br>afstand"
    ELSE IF col = "running_distance_p90_percentile"
      THEN "15-20km/u<br>afstand"
    ELSE IF col = "hsr_distance_p90_percentile"
      THEN "20-25km/u<br>afstand"
    ELSE IF col = "sprint_distance_p90_percentile"
      THEN "25+km/u<br>afstand"
    ELSE IF col = "bypass_midfield_defense_tip_p30_percentile"
      THEN "Uitgespeelde<br>tegenstanders"
    ELSE IF col = "bypass_opponents_rec_tip_p30_percentile"
      THEN "Uitgespeelde<br>tegenstanders<br>als ontvanger"
    ELSE IF col = "off_ball_runs_total_tip_p30_percentile"
      THEN "Loopacties<br>zonder bal"
    ELSE IF col = "involvement_chances_tip_p30_percentile"
      THEN "Betrokkenheid<br>kansen"
    ELSE IF col = "ball_loss_removed_teammates_tip_p30_percentile"
      THEN "Balverlies<br>verwijderde<br>teamgenoten"
    ELSE IF col = "ball_loss_added_opponents_tip_p30_percentile"
      THEN "Balverlies<br>toegevoegde<br>tegenstanders"
    ELSE IF col = "ball_win_removed_opponents_otip_p30_percentile"
      THEN "Balverovering<br>verwijderde<br>tegenstanders"
    ELSE IF col = "ball_win_added_teammates_otip_p30_percentile"
      THEN "Balverovering<br>toegevoegde<br>teamgenoten"
    ELSE IF col = "ground_duels_won_percentage_percentile"
      THEN "Winstpercentage<br>grondduels"
    ELSE IF col = "aerial_duels_won_percentage_percentile"
      THEN "Winstpercentage<br>luchtduels"
    ELSE IF col = "press_total_stop_danger_otip_p30_percentile"
      THEN "Gestopt gevaar<br>met verdedigende actie"
    ELSE col

\* plot_columns
plot_columns == PHYSICAL_METRICS \o ATTACK_METRICS \o DEFENSE_METRICS

\* category_colors[category_mapping[i]] for the i-th plotted column.
BramBaseColor(i) ==
    IF i <= Len(PHYSICAL_METRICS) THEN green
    ELSE IF i <= Len(PHYSICAL_METRICS) + Len(ATTACK_METRICS) THEN red
    ELSE yellow

\* create_polarized_bar_chart(player_data, ...) of scouting_app_Bram.py: what
\* the figure shows of the row.
create_polarized_bar_chart_Bram(player_data) ==
    LET percentile_values ==
            [i \in DOMAIN plot_columns |->
               IF plot_columns[i] \in DOMAIN player_data.m
                 THEN player_data.m[plot_columns[i]] ELSE 0]
        np == Len(PHYSICAL_METRICS)
        na == Len(ATTACK_METRICS)
        physical_avg == NpMean(Slice(percentile_values, 0, np))
        attack_avg   == NpMean(Slice(percentile_values, np, np + na))
        defense_avg  == NpMean(Slice(percentile_values, np + na,
                                     Len(percentile_values)))
    IN  [ row          |-> player_data,
          profile_key  |-> "",
          keys         |-> plot_columns,
          values       |-> percentile_values,
          labels       |-> [i \in DOMAIN plot_columns |-> LABELS(plot_columns[i])],
          colors       |-> [i \in DOMAIN percentile_values |->
                              get_gradient_color(BramBaseColor(i),
                                  ColorScore(percentile_values[i]))],
          physical_avg |-> physical_avg,
          attack_avg   |-> attack_avg,
          defense_avg  |-> defense_avg,
          overall_avg  |-> NpMeanOfScores(<<physical_avg, attack_avg, defense_avg>>) ]

\* [k for k in active_metric_keys if metrics[k].category == category]
KeysOfCategory(active_metric_keys, category) ==
    SelectSeq(active_metric_keys, LAMBDA k : CategoryName(k) = category)

\* The keys with the attack keys first.
all_keys_attack_first(active_metric_keys) ==
    KeysOfCategory(active_metric_keys, "attack")
      \o KeysOfCategory(active_metric_keys, "physical")
      \o KeysOfCategory(active_metric_keys, "defense")

\* all_keys = physical_keys + attack_keys + defense_keys
all_keys(active_metric_keys) ==
    KeysOfCategory(active_metric_keys, "physical")
      \o KeysOfCategory(active_metric_keys, "attack")
      \o KeysOfCategory(active_metric_keys, "defense")

\* str(player_data.get('position_profile', '')).split(' (')[0]
raw_pos(player_data) == player_data.position_profile[1]

\* raw_pos if raw_pos in position_profiles else "DMCM"
profile_key(player_data) ==
    IF raw_pos(player_data) \in DOMAIN profiles THEN raw_pos(player_data)
    ELSE "DMCM"

\* create_polarized_bar_chart(player_data, ...) of scouting_streamlit.py.
create_polarized_bar_chart_streamlit(player_data) ==
    LET active_metric_keys == GetProfile(profile_key(player_data))
        keys == all_keys(active_metric_keys)
        np == Len(KeysOfCategory(active_metric_keys, "physical"))
        na == Len(KeysOfCategory(active_metric_keys, "attack"))
        nd == Len(KeysOfCategory(active_metric_keys, "defense"))
        percentile_values ==
            [i \in DOMAIN keys |->
               IF keys[i] \in DOMAIN player_data.m
                 THEN player_data.m[keys[i]] ELSE 0]
        Colors(vs, base) == [i \in DOMAIN vs |-> get_color(ColorScore(vs[i]), base)]
    IN  [ row          |-> player_data,
          profile_key  |-> profile_key(player_data),
          keys         |-> keys,
          values       |-> percentile_values,
          labels       |-> [i \in DOMAIN keys |-> MetricLabel(keys[i])],
          colors       |-> Colors(Slice(percentile_values, 0, np), green)
                             \o Colors(Slice(percentile_values, np, np + na), red)
                             \o Colors(SliceLast(percentile_values, nd), yellow),
          physical_avg |-> player_data.physical,
          attack_avg   |-> player_data.attack,
          defense_avg  |-> player_data.defense,
          overall_avg  |-> player_data.total ]

\* A player of the leaderboard is selected and scouting_app_Bram.py draws the
\* chart.
CreateChartBram ==
    /\ app = "bram"
    /\ pc = "table"
    /\ chart = <<>>
    /\ \E i \in DOMAIN df_top :
         chart' = create_polarized_bar_chart_Bram(df_top[i])
    /\ UNCHANGED <<app, categorized, base_color, score, color, score0, color0>>
    /\ UNCHANGED ext_vars
    /\ UNCHANGED pipe_vars
    /\ UNCHANGED vp_vars

\* A player of the leaderboard is selected and scouting_streamlit.py draws
\* the chart.
CreateChartStreamlit ==
    /\ app = "streamlit"
    /\ pc = "table"
    /\ chart = <<>>
    /\ \E i \in DOMAIN df_top :
         chart' = create_polarized_bar_chart_streamlit(df_top[i])
    /\ UNCHANGED <<app, categorized, base_color, score, color, score0, color0>>
    /\ UNCHANGED ext_vars
    /\ UNCHANGED pipe_vars
    /\ UNCHANGED vp_vars

\* One run of either script up to a chart.
InitApp == Init \/ StInit

NextApp ==
    \/ ValidateKey \/ ValidateNextProfile \/ ValidateReturn
    \/ StLoad \/ Load \/ Rank \/ TopN \/ Filter
    \/ CreateChartBram \/ CreateChartStreamlit

SpecApp == InitApp /\ [][NextApp]_vars

---------------------------------------------------------------------------
(* The comparison view: selections in the two tables and their charts *)

MaxSelected == 3

\* A player may have several rows (positions, seasons) in the data.
PlayerNames == { "Player A", "Player B" }

\* The rows of the data, with their index labels.  Every row is shown in the
\* top table and, with every player searched for, in the search table.
CmpRows(t) == [i \in DOMAIN t |-> [index |-> i - 1, player_name |-> t[i]]]

CmpTables == UNION { [1..n -> PlayerNames] : n \in 0..MaxRows }

\* The selected rows of a grid of n rows, in the order the grid reports them.
Selections(n) ==
    { sel \in UNION { [1..k -> 1..n] : k \in 0..MaxSelected } :
        \A i, j \in DOMAIN sel : i # j => sel[i] # sel[j] }

\* The first three elements.
FirstThree(s) == Slice(s, 0, 3)

\* s[:2]
FirstTwo(s) == Slice(s, 0, 2)

\* The row of the top grid of scouting_streamlit.py for a row of df_top: the
\* displayed columns, of which the selection logic reads two.
StTopGridRow(r) == ("Speler" :> r.player_name) @@ ("_original_index" :> r.index)

\* The row of the search grid of scouting_streamlit.py: df_selected_players
\* has the displayed columns and player_url, and no index column.
StSearchGridRow(r) == ("Speler" :> r.player_name)

\* The rows df.loc[idx] for the grid rows that carry the index under key and
\* whose index is in the frame.
FullData(grid_rows, key, frame) ==
    LET found == SelectSeq(grid_rows,
                     LAMBDA g : /\ key \in DOMAIN g
                                /\ \E i \in DOMAIN frame : frame[i].index = g[key])
    IN  [k \in DOMAIN found |->
           frame[CHOOSE i \in DOMAIN frame : frame[i].index = found[k][key]]]

\* player_rows.iloc[0] of df_search_pool[df_search_pool["player_name"] == name]
FirstRowNamed(frame, name) ==
    frame[CHOOSE i \in DOMAIN frame :
            /\ frame[i].player_name = name
            /\ \A j \in DOMAIN frame : frame[j].player_name = name => i <= j]

CmpStart(t) ==
    [ pc                      |-> "select",
      rows                    |-> CmpRows(t),
      selected_top            |-> <<>>,
      selected_search         |-> <<>>,
      players_to_compare      |-> <<>>,
      players_data_to_compare |-> <<>>,
      use_exact_data          |-> FALSE,
      i                       |-> 1,
      charts                  |-> <<>> ]

InitCompare ==
    /\ PipeIdle
    /\ VpIdle
    /\ app \in {"bram", "streamlit"}
    /\ chart = <<>>
    /\ categorized = <<>>
    /\ GradIdle
    /\ gate = <<>>
    /\ paging = <<>>
    /\ radar = <<>>
    /\ compare \in {CmpStart(t) : t \in CmpTables}

\* scouting_app_Bram.py reads the two grid responses: selections of the
\* bottom table take priority over those of the top table.
SelectBram ==
    /\ app = "bram"
    /\ compare # <<>>
    /\ compare.pc = "select"
    /\ \E top \in Selections(Len(compare.rows)),
          search \in Selections(Len(compare.rows)) :
         LET top_rows    == [k \in DOMAIN top |-> compare.rows[top[k]]]
             search_rows == [k \in DOMAIN search |-> compare.rows[search[k]]]
             selected_from_grid ==
                 [k \in DOMAIN FirstTwo(top_rows) |-> top_rows[k].player_name]
             selected_from_grid_full_data == FirstTwo(top_rows)
             selected_from_bottom_table ==
                 [k \in DOMAIN FirstTwo(search_rows) |-> search_rows[k].player_name]
             from_bottom == selected_from_bottom_table # <<>>
             from_top == /\ selected_from_grid # <<>>
                         /\ selected_from_grid_full_data # <<>>
             players == IF from_bottom THEN selected_from_bottom_table
                        ELSE IF from_top THEN selected_from_grid
                        ELSE <<>>
             data == IF ~from_bottom /\ from_top THEN selected_from_grid_full_data
                     ELSE <<>>
         IN  compare' = [compare EXCEPT
                 !.selected_top = top_rows,
                 !.selected_search = search_rows,
                 !.players_to_compare = FirstTwo(players),
                 !.players_data_to_compare = FirstTwo(data),
                 !.use_exact_data = ~from_bottom /\ from_top,
                 !.pc = IF players = <<>> THEN "done" ELSE "render"]
    /\ UNCHANGED <<app, chart, categorized, base_color, score, color, score0, color0>>
    /\ UNCHANGED <<gate, paging, radar>>
    /\ UNCHANGED pipe_vars
    /\ UNCHANGED vp_vars

\* One pass of the chart loop of scouting_app_Bram.py.
RenderBram ==
    /\ app = "bram"
    /\ compare # <<>>
    /\ compare.pc = "render"
    /\ LET i == compare.i
           player_name == compare.players_to_compare[i]
           exact == compare.use_exact_data /\ i <= Len(compare.players_data_to_compare)
           found == \E k \in DOMAIN compare.rows :
                       compare.rows[k].player_name = player_name
           player_data == IF exact THEN compare.players_data_to_compare[i]
                          ELSE FirstRowNamed(compare.rows, player_name)
           last == i >= Len(compare.players_to_compare)
       IN  compare' = [compare EXCEPT
               !.charts = IF exact \/ found
                            THEN Append(@, [player_name |-> player_name,
                                            row |-> player_data])
                            ELSE @,
               !.i = i + 1,
               !.pc = IF last THEN "done" ELSE "render"]
    /\ UNCHANGED <<app, chart, categorized, base_color, score, color, score0, color0>>
    /\ UNCHANGED <<gate, paging, radar>>
    /\ UNCHANGED pipe_vars
    /\ UNCHANGED vp_vars

\* scouting_streamlit.py reads the two grid responses and joins them.
SelectStreamlit ==
    /\ app = "streamlit"
    /\ compare # <<>>
    /\ compare.pc = "select"
    /\ \E top \in Selections(Len(compare.rows)),
          search \in Selections(Len(compare.rows)) :
         LET top_rows    == [k \in DOMAIN top |-> compare.rows[top[k]]]
             search_rows == [k \in DOMAIN search |-> compare.rows[search[k]]]
             top_grid    == FirstTwo([k \in DOMAIN top_rows |->
                                        StTopGridRow(top_rows[k])])
             search_grid == FirstTwo([k \in DOMAIN search_rows |->
                                        StSearchGridRow(search_rows[k])])
             selected_from_top_table ==
                 [k \in DOMAIN top_grid |-> top_grid[k]["Speler"]]
             selected_from_top_table_full_data ==
                 FullData(top_grid, "_original_index", compare.rows)
             selected_from_search_table ==
                 [k \in DOMAIN search_grid |-> search_grid[k]["Speler"]]
             selected_from_search_table_full_data ==
                 FullData(search_grid, "_search_original_index", compare.rows)
             players == FirstTwo(selected_from_top_table
                                   \o selected_from_search_table)
             data == FirstTwo(selected_from_top_table_full_data
                                \o selected_from_search_table_full_data)
         IN  compare' = [compare EXCEPT
                 !.selected_top = top_rows,
                 !.selected_search = search_rows,
                 !.players_to_compare = players,
                 !.players_data_to_compare = data,
                 !.pc = IF players = <<>> THEN "done" ELSE "render"]
    /\ UNCHANGED <<app, chart, categorized, base_color, score, color, score0, color0>>
    /\ UNCHANGED <<gate, paging, radar>>
    /\ UNCHANGED pipe_vars
    /\ UNCHANGED vp_vars

\* One pass of the chart loop of scouting_streamlit.py:
\* players_data_to_compare[i] raises IndexError past the end of the list.
RenderStreamlit ==
    /\ app = "streamlit"
    /\ compare # <<>>
    /\ compare.pc = "render"
    /\ LET i == compare.i
           last == i >= Len(compare.players_to_compare)
       IN  IF i > Len(compare.players_data_to_compare)
             THEN compare' = [compare EXCEPT !.pc = "IndexError"]
             ELSE compare' = [compare EXCEPT
                      !.charts = Append(@,
                          [player_name |-> compare.players_to_compare[i],
                           row |-> compare.players_data_to_compare[i]]),
                      !.i = i + 1,
                      !.pc = IF last THEN "done" ELSE "render"]
    /\ UNCHANGED <<app, chart, categorized, base_color, score, color, score0, color0>>
    /\ UNCHANGED <<gate, paging, radar>>
    /\ UNCHANGED pipe_vars
    /\ UNCHANGED vp_vars

NextCompare == SelectBram \/ RenderBram \/ SelectStreamlit \/ RenderStreamlit

SpecCompare == InitCompare /\ [][NextCompare]_vars

---------------------------------------------------------------------------
(* check_password and the password gate *)

MaxAttempts == 3

\* The fallback of st.secrets.get("APP_PASSWORD", "fcgroningen2024") in
\* scouting_app_Bram.py.
DefaultPassword == "fcgroningen2024"

\* What a user may type into the password field.
EnteredPasswords == { "fcgroningen2024", "s3cret", "guess" }

\* st.secrets: without APP_PASSWORD, or with it.
SecretsChoices ==
    { <<>>, ("APP_PASSWORD" :> "s3cret"), ("APP_PASSWORD" :> "fcgroningen2024") }

\* d.get(key, default)
DictGet(d, key, default) == IF key \in DOMAIN d THEN d[key] ELSE default

\* del d[key]
DictDel(d, key) == [k \in DOMAIN d \ {key} |-> d[k]]

\* d[key] = value
DictSet(d, key, value) == (key :> value) @@ d

\* A new browser session: st.session_state is empty and the script runs.
InitPassword ==
    /\ PipeIdle
    /\ VpIdle
    /\ app \in {"bram", "streamlit"}
    /\ chart = <<>>
    /\ categorized = <<>>
    /\ GradIdle
    /\ paging = <<>>
    /\ compare = <<>>
    /\ radar = <<>>
    /\ \E secrets \in SecretsChoices :
         gate = [ pc            |-> "run",
                  secrets       |-> secrets,
                  session_state |-> <<>>,
                  entered       |-> "",
                  attempts      |-> 0 ]

\* if not check_password(): st.stop().  The run stops at the password field
\* unless session_state["password_correct"] is set and true; else it goes on
\* to the content of the dashboard.
CheckPassword ==
    /\ gate # <<>>
    /\ gate.pc = "run"
    /\ gate' = [gate EXCEPT !.pc =
                   IF "password_correct" \notin DOMAIN gate.session_state
                     THEN "stopped"
                   ELSE IF ~gate.session_state["password_correct"]
                     THEN "stopped"
                   ELSE "content"]
    /\ UNCHANGED <<app, chart, categorized, base_color, score, color, score0, color0>>
    /\ UNCHANGED <<paging, compare, radar>>
    /\ UNCHANGED pipe_vars
    /\ UNCHANGED vp_vars

\* password_entered of scouting_app_Bram.py on the session state that holds
\* the typed text under "password".
password_entered_Bram(secrets, session_state) ==
    IF session_state["password"] = DictGet(secrets, "APP_PASSWORD", DefaultPassword)
      THEN DictDel(DictSet(session_state, "password_correct", TRUE), "password")
      ELSE DictSet(session_state, "password_correct", FALSE)

\* password_entered of scouting_streamlit.py.
password_entered_streamlit(secrets, session_state) ==
    IF "APP_PASSWORD" \notin DOMAIN secrets
      THEN session_state
    ELSE IF session_state["password"] = secrets["APP_PASSWORD"]
      THEN DictDel(DictSet(session_state, "password_correct", TRUE), "password")
      ELSE DictSet(session_state, "password_correct", FALSE)

\* The user types a password into the field the stopped run shows: Streamlit
\* stores it under the widget key, calls password_entered and runs the
\* script again.
PasswordEntered ==
    /\ gate # <<>>
    /\ gate.pc = "stopped"
    /\ gate.attempts < MaxAttempts
    /\ \E typed \in EnteredPasswords :
         LET with_text == DictSet(gate.session_state, "password", typed)
         IN  gate' = [gate EXCEPT
                 !.session_state =
                     IF app = "bram"
                       THEN password_entered_Bram(gate.secrets, with_text)
                       ELSE password_entered_streamlit(gate.secrets, with_text),
                 !.entered = typed,
                 !.attempts = @ + 1,
                 !.pc = "run"]
    /\ UNCHANGED <<app, chart, categorized, base_color, score, color, score0, color0>>
    /\ UNCHANGED <<paging, compare, radar>>
    /\ UNCHANGED pipe_vars
    /\ UNCHANGED vp_vars

\* A widget of the dashboard changes and Streamlit runs the script again.
RerunBehindGate ==
    /\ gate # <<>>
    /\ gate.pc = "content"
    /\ gate' = [gate EXCEPT !.pc = "run"]
    /\ UNCHANGED <<app, chart, categorized, base_color, score, color, score0, color0>>
    /\ UNCHANGED <<paging, compare, radar>>
    /\ UNCHANGED pipe_vars
    /\ UNCHANGED vp_vars

NextPassword == CheckPassword \/ PasswordEntered \/ RerunBehindGate

SpecPassword == InitPassword /\ [][NextPassword]_vars

---------------------------------------------------------------------------
(* Paging of load_data_from_supabase and load_impect_urls_from_supabase *)

MaxPages == 2

page_size == 1000

\* The rows of a table are numbered from 0 in the order the server pages
\* them; a run of rows is the pair of its first and last number, and an
\* empty run has last = first - 1.
PageLen(data) == data[2] - data[1] + 1

\* A range that ends one row early.
PageRangeShort(offset) == <<offset, offset + page_size - 2>>

\* The two arguments of .range(offset, offset + page_size - 1).
PageRange(offset) == <<offset, offset + page_size - 1>>

\* response.data of a request for the rows range[1]..range[2] (inclusive)
\* of a table of n_rows rows: the rows of the range that exist.
ResponseData(range, n_rows) ==
    IF range[1] >= n_rows
      THEN <<range[1], range[1] - 1>>
      ELSE <<range[1], IF range[2] < n_rows THEN range[2] ELSE n_rows - 1>>

\* all_data.extend(response.data)
Extend(all_data, data) ==
    IF PageLen(data) = 0 THEN all_data ELSE Append(all_data, data)

\* A test that also takes a full page for the last one.
ShortPageOrFull(data) == PageLen(data) <= page_size

\* len(response.data) < page_size
ShortPage(data) == PageLen(data) < page_size

\* The loaders that count the rows first and loop over
\* range(0, total_count, page_size); load_impect_urls_from_supabase of
\* scouting_app_Bram.py loops until a page comes back empty or short.
Counted(a, loader) == ~(a = "bram" /\ loader = "load_impect_urls")

\* A loader is called on a table of any size up to one row more than
\* MaxPages full pages.
InitPaging ==
    /\ PipeIdle
    /\ VpIdle
    /\ app \in {"bram", "streamlit"}
    /\ chart = <<>>
    /\ categorized = <<>>
    /\ GradIdle
    /\ gate = <<>>
    /\ compare = <<>>
    /\ radar = <<>>
    /\ \E loader \in {"load_data", "load_impect_urls"},
          n_rows \in 0..(MaxPages * page_size + 1) :
         paging = [ pc          |-> "start",
                    loader      |-> loader,
                    n_rows      |-> n_rows,
                    total_count |-> 0,
                    offset      |-> 0,
                    requests    |-> <<>>,
                    all_data    |-> <<>> ]

\* count_response = ...select(..., count='exact').limit(1).execute();
\* total_count = count_response.count
CountRows ==
    /\ paging # <<>>
    /\ paging.pc = "start"
    /\ Counted(app, paging.loader)
    /\ paging' = [paging EXCEPT !.total_count = paging.n_rows, !.pc = "loop"]
    /\ UNCHANGED <<app, chart, categorized, base_color, score, color, score0, color0>>
    /\ UNCHANGED <<gate, compare, radar>>
    /\ UNCHANGED pipe_vars
    /\ UNCHANGED vp_vars

\* One pass of for offset in range(0, total_count, page_size).
FetchPage ==
    /\ paging # <<>>
    /\ paging.pc = "loop"
    /\ Counted(app, paging.loader)
    /\ paging.offset < paging.total_count
    /\ LET range == PageRange(paging.offset)
           data  == ResponseData(range, paging.n_rows)
       IN  paging' = [paging EXCEPT
               !.requests = Append(@, [range |-> range, data |-> data]),
               !.all_data = Extend(@, data),
               !.offset   = @ + page_size]
    /\ UNCHANGED <<app, chart, categorized, base_color, score, color, score0, color0>>
    /\ UNCHANGED <<gate, compare, radar>>
    /\ UNCHANGED pipe_vars
    /\ UNCHANGED vp_vars

\* The range is used up: the rows become the DataFrame that is returned.
ReturnData ==
    /\ paging # <<>>
    /\ paging.pc = "loop"
    /\ Counted(app, paging.loader)
    /\ paging.offset >= paging.total_count
    /\ paging' = [paging EXCEPT !.pc = "done"]
    /\ UNCHANGED <<app, chart, categorized, base_color, score, color, score0, color0>>
    /\ UNCHANGED <<gate, compare, radar>>
    /\ UNCHANGED pipe_vars
    /\ UNCHANGED vp_vars

\* offset = 0 before while True of load_impect_urls_from_supabase.
StartUrls ==
    /\ paging # <<>>
    /\ paging.pc = "start"
    /\ ~Counted(app, paging.loader)
    /\ paging' = [paging EXCEPT !.offset = 0, !.pc = "loop"]
    /\ UNCHANGED <<app, chart, categorized, base_color, score, color, score0, color0>>
    /\ UNCHANGED <<gate, compare, radar>>
    /\ UNCHANGED pipe_vars
    /\ UNCHANGED vp_vars

\* One pass of while True: the request, the break on an empty page, the
\* extend, the break on a short page, the step of the offset.
FetchUrlPage ==
    /\ paging # <<>>
    /\ paging.pc = "loop"
    /\ ~Counted(app, paging.loader)
    /\ LET range == PageRange(paging.offset)
           data  == ResponseData(range, paging.n_rows)
       IN  paging' = [paging EXCEPT
               !.requests = Append(@, [range |-> range, data |-> data]),
               !.all_data = Extend(@, data),
               !.offset   = IF PageLen(data) = 0 \/ ShortPage(data)
                              THEN @ ELSE @ + page_size,
               !.pc       = IF PageLen(data) = 0 \/ ShortPage(data)
                              THEN "done" ELSE "loop"]
    /\ UNCHANGED <<app, chart, categorized, base_color, score, color, score0, color0>>
    /\ UNCHANGED <<gate, compare, radar>>
    /\ UNCHANGED pipe_vars
    /\ UNCHANGED vp_vars

NextPaging ==
    CountRows \/ FetchPage \/ ReturnData \/ StartUrls \/ FetchUrlPage

SpecPaging == InitPaging /\ [][NextPaging]_vars

\* A started loader keeps running: nothing but its own loop holds it up.
SpecPagingFair == SpecPaging /\ WF_vars(NextPaging)

---------------------------------------------------------------------------
(* Properties of the scores *)

Categories == {"physical", "attack", "defense"}

MetricsOf(c) ==
    IF c = "physical" THEN PHYSICAL_METRICS
    ELSE IF c = "attack" THEN ATTACK_METRICS
    ELSE DEFENSE_METRICS

ScoreOf(r, c) ==
    IF c = "physical" THEN r.physical
    ELSE IF c = "attack" THEN r.attack
    ELSE r.defense

PresentIn(r, c) == {k \in Range(MetricsOf(c)) : r.m[k] # NaN}

\* C1: in every row of the loaded table each category score is the mean of
\* the metrics of the category's list that are present in the row (their sum
\* over their number, a missing metric counted in neither), and the score is
\* NaN exactly when none of them is present.
C1_CategoryMeanOfPresent ==
    \A i \in DOMAIN df : \A c \in Categories :
        LET r == df[i]
            s == ScoreOf(r, c)
            P == PresentIn(r, c)
        IN  /\ IsNaN(s) <=> P = {}
            /\ P # {} => s[1] * Cardinality(P) = s[2] * SumOver(r.m, P)

\* A loaded row with a category of a present and a missing metric whose mean
\* is the present value, and a category without any present metric.
C1_Witness ==
    /\ pc = "loaded"
    /\ \E i \in DOMAIN df :
         /\ df[i].m[PHYSICAL_METRICS[1]] = 80
         /\ df[i].m[PHYSICAL_METRICS[2]] = NaN
         /\ df[i].physical = <<80, 1>>
         /\ df[i].m[DEFENSE_METRICS[1]] = NaN
         /\ df[i].defense = <<20, 1>>
    /\ \E i \in DOMAIN df : PresentIn(df[i], "attack") = {} /\ IsNaN(df[i].attack)

\* A common multiple of the denominators a category mean can have: the
\* factorial of the length of the longest metric list.
CommonDen ==
    LET n == IF Len(ATTACK_METRICS) >= Len(PHYSICAL_METRICS)
                  /\ Len(ATTACK_METRICS) >= Len(DEFENSE_METRICS)
               THEN Len(ATTACK_METRICS)
             ELSE IF Len(PHYSICAL_METRICS) >= Len(DEFENSE_METRICS)
               THEN Len(PHYSICAL_METRICS)
             ELSE Len(DEFENSE_METRICS)
    IN  ProdOver([k \in 1..n |-> k], 1..n)

\* The category score s as a multiple of 1/CommonDen.
Scaled(s) == s[1] * (CommonDen \div s[2])

DefinedCats(r) == {c \in Categories : ~IsNaN(ScoreOf(r, c))}

\* C2: in every row of the loaded table the overall score is the mean of the
\* category scores that are defined, and it is NaN when none is defined.
C2_OverallMeanOfDefined ==
    \A i \in DOMAIN df :
        LET r == df[i]
            D == DefinedCats(r)
        IN  /\ \A c \in D : CommonDen % ScoreOf(r, c)[2] = 0
            /\ IsNaN(r.total) <=> D = {}
            /\ D # {} =>
                 r.total[1] * CommonDen * Cardinality(D)
                   = r.total[2] * SumOver([c \in Categories |->
                                             IF c \in D THEN Scaled(ScoreOf(r, c))
                                             ELSE 0], Categories)

\* A loaded row with two defined categories (80 and 60, overall 70), a row
\* with three (80, 40, 20, overall 140/3) and a row with none.
C2_Witness ==
    /\ pc = "loaded"
    /\ \E i \in DOMAIN df :
         /\ IsNaN(df[i].attack) /\ Cardinality(DefinedCats(df[i])) = 2
         /\ df[i].total[1] = 70 * df[i].total[2]
    /\ \E i \in DOMAIN df :
         /\ Cardinality(DefinedCats(df[i])) = 3
         /\ 3 * df[i].total[1] = 140 * df[i].total[2]
    /\ \E i \in DOMAIN df : DefinedCats(df[i]) = {} /\ IsNaN(df[i].total)

---------------------------------------------------------------------------
(* Properties of the ranking *)

\* The rows of the loaded table that match the sidebar filters.
MaskedIdx == {i \in DOMAIN df : df[i].in_mask}

\* x comes before y in every descending order with the undefined last.
Better(x, y) == ~IsNaN(x.total) /\ (IsNaN(y.total) \/ ScoreGT(x.total, y.total))

Ranked == pc \in {"ranked", "top", "ranked_again"}

\* C3: after ranking, the ranks are 1..N along the N ranked rows, which are
\* the masked rows of the table, the overall score never increases along the
\* rows that have one, and no row without one comes before a row with one.
C3_DenseSortedNullsLast ==
    Ranked =>
        /\ Len(df_f) = Cardinality(MaskedIdx)
        /\ {df_f[k].index + 1 : k \in DOMAIN df_f} = MaskedIdx
        /\ \A k \in DOMAIN df_f :
             /\ df_f[k].original_rank = k
             /\ df_f[k] = [df[df_f[k].index + 1] EXCEPT !.original_rank = k]
        /\ \A k, l \in DOMAIN df_f : k < l => ~Better(df_f[l], df_f[k])

\* A ranking of three rows: two different overall scores, then none.
C3_Witness ==
    /\ pc = "ranked"
    /\ Len(df_f) = 3
    /\ ScoreGT(df_f[1].total, df_f[2].total)
    /\ IsNaN(df_f[3].total)
    /\ df_f[1].index > df_f[3].index

Filtered == pc \in {"table", "no_match"}

RanksOf(d) == {d[k].original_rank : k \in DOMAIN d}

\* C4: with the three minimums at 0 the leaderboard shows the ranks
\* 1..min(top_n, number of ranked rows).
C4_ZeroMinimumsDropNothing ==
    (Filtered /\ min_physical = 0 /\ min_attack = 0 /\ min_defense = 0) =>
        RanksOf(df_top) =
            1..(IF top_n < Cardinality(MaskedIdx) THEN top_n
                ELSE Cardinality(MaskedIdx))

\* The rows that come before r in every descending order of the masked rows,
\* and the rows that r does not come before in every such order.
StrictlyBefore(r) == {j \in MaskedIdx : Better(df[j], r)}
NotAfter(r) == {j \in MaskedIdx : ~Better(r, df[j])}

Raised ==
    /\ prev_min # <<>>
    /\ prev_min[1] <= min_physical
    /\ prev_min[2] <= min_attack
    /\ prev_min[3] <= min_defense

\* C5: every row of the leaderboard shows the rank of its place in the sort
\* of all the masked rows, and after a rerun with no minimum lowered every
\* row of the leaderboard was in the previous leaderboard with the same rank.
C5_RanksLocked ==
    Filtered =>
        /\ \A k \in DOMAIN df_top :
             LET r == df_top[k]
             IN  /\ r.index + 1 \in MaskedIdx
                 /\ r.original_rank > Cardinality(StrictlyBefore(r))
                 /\ r.original_rank <= Cardinality(NotAfter(r))
        /\ \A k, l \in DOMAIN df_top :
             k < l => df_top[k].original_rank < df_top[l].original_rank
        /\ Raised => Range(df_top) \subseteq Range(prev_top)

\* A rerun with a raised minimum that dropped the row of rank 1 and kept a
\* row of a larger rank.
C5_Witness ==
    /\ pc = "table"
    /\ Raised
    /\ prev_min # <<min_physical, min_attack, min_defense>>
    /\ Len(df_top) < Len(prev_top)
    /\ 1 \in RanksOf(prev_top)
    /\ 1 \notin RanksOf(df_top)

\* A row passes the minimum t of a category as the claim has it: a defined
\* score when it is at least t, an undefined score when t is 0.
PassesClaimed(s, t) == IF IsNaN(s) THEN t = 0 ELSE s[1] >= t * s[2]

\* C6: the filter step keeps a row of the top-n slice exactly when each of
\* its category scores passes its minimum, an undefined score passing a
\* minimum of 0 and failing every larger one.
C6_DroppedIffBelow ==
    [][(pc = "top" /\ pc' \in {"table", "no_match"}) =>
          \A k \in DOMAIN df_top :
              (df_top[k] \in Range(df_top')) <=>
                  /\ PassesClaimed(df_top[k].physical, min_physical)
                  /\ PassesClaimed(df_top[k].attack, min_attack)
                  /\ PassesClaimed(df_top[k].defense, min_defense)]_vars

\* C7: every row of the leaderboard is one of the first top_n rows of the
\* ranking: its rank is at most top_n and fewer than top_n masked rows have
\* a better overall score.
C7_WithinTopN ==
    Filtered =>
        \A k \in DOMAIN df_top :
            /\ df_top[k].original_rank <= top_n
            /\ Cardinality(StrictlyBefore(df_top[k])) < top_n

\* A leaderboard that lost a row of the slice to the minimums while a row
\* ranked below the slice passes them.
C7_Witness ==
    /\ pc = "table"
    /\ Len(df_top) < top_n
    /\ \E k \in DOMAIN df_f : df_f[k].original_rank > top_n

\* C8: of two ranked rows with the same overall score, or both without one,
\* the row that came first in the table has the smaller rank.
C8_TiesInInputOrder ==
    Ranked =>
        \A k, l \in DOMAIN df_f :
            (ScoreEQ(df_f[k].total, df_f[l].total)
               /\ df_f[k].index < df_f[l].index) =>
                df_f[k].original_rank < df_f[l].original_rank

\* C9: ranking the ranked table again gives every row the rank it has.
C9_RankIdempotent ==
    pc = "ranked_again" => df_again = df_f

---------------------------------------------------------------------------
(* Properties of validate_profiles *)

UndefinedKeys ==
    {<<p, i>> \in Range(ProfileOrder) \X (1..MaxKeys) :
        i <= Len(profiles[p]) /\ profiles[p][i] \notin metrics}

\* The keys that the loops reach before the key i of the profile at place p.
Earlier(p, i) ==
    {<<ProfileOrder[q], j>> : <<q, j>> \in
        {<<q, j>> \in (1..Len(ProfileOrder)) \X (1..MaxKeys) :
            /\ j <= Len(profiles[ProfileOrder[q]])
            /\ q < p \/ (q = p /\ j < i)}}

\* C10: validate_profiles raises only when some profile lists a key that the
\* catalog does not define, namely at the first such key the loops reach;
\* it returns only when every key of every profile is defined; and every key
\* it has passed is defined.
C10_RaisesIffUndefinedKey ==
    /\ vp_result = "KeyError" =>
         /\ <<ProfileOrder[vp_pos], vp_key>> \in UndefinedKeys
         /\ Earlier(vp_pos, vp_key) \cap UndefinedKeys = {}
    /\ vp_result = "returned" => UndefinedKeys = {}
    /\ vp_result = "running" => Earlier(vp_pos, vp_key) \cap UndefinedKeys = {}

\* The call has raised at the second key of the second profile, after a
\* first profile whose keys are all defined.
C10_Witness ==
    /\ vp_result = "KeyError"
    /\ vp_pos = 2
    /\ vp_key = 2
    /\ Len(profiles[ProfileOrder[1]]) = MaxKeys

---------------------------------------------------------------------------
(* Properties of the gradient colors *)

\* The color at score 0: scouting_app_Bram.py starts from the tint of the
\* base color (the values its lighten_color gives for the three base colors),
\* scouting_streamlit.py from white.
Anchor(a, base) ==
    IF a = "streamlit" THEN <<255, 255, 255>>
    ELSE IF base = green THEN <<177, 209, 190>>
    ELSE IF base = red THEN <<245, 178, 169>>
    ELSE <<249, 225, 173>>

\* The base colors as the channels their hex strings spell.
BaseRgb(base) ==
    IF base = green THEN <<62, 140, 94>>
    ELSE IF base = red THEN <<232, 63, 42>>
    ELSE <<242, 181, 51>>

\* C19: the color computed for score 0 is the light anchor of the base color
\* and the color computed for score 100 is the base color itself.
C19_GradientAnchors ==
    color # <<>> =>
        /\ score = 0 => color = Anchor(app, base_color)
        /\ score = 100 => color = BaseRgb(base_color)

\* Both anchors are computed: score 100 after a sweep that began at score 0.
C19_Witness ==
    /\ score0 = 0
    /\ score = 100
    /\ app = "bram"
    /\ color = BaseRgb(base_color)
    /\ color0 = Anchor(app, base_color)

Dist(x, y) == IF x >= y THEN x - y ELSE y - x

\* C20: of two scores the larger one gets, in every channel, a value at
\* least as close to the base color; all the scores up to 0 get one color
\* and all the scores from 100 on get one color.
C20_GradientMonotonic ==
    (color # <<>> /\ color0 # <<>>) =>
        /\ \A i \in 1..3 :
             Dist(color[i], BaseRgb(base_color)[i])
               <= Dist(color0[i], BaseRgb(base_color)[i])
        /\ score <= 0 => color = color0
        /\ score0 >= 100 => color = color0

\* A sweep from below 0 to above 100 that changed the color.
C20_Witness ==
    /\ score0 < 0
    /\ score > 100
    /\ color # <<>>
    /\ color0 # <<>>
    /\ color # color0

---------------------------------------------------------------------------
(* Properties of the profile lookups *)

\* C12: a lookup of a registered profile name returns, and a lookup of a name
\* that was never registered fails with an error.
C12_ResolveOrFail ==
    categorized # <<>> =>
        IF categorized.profile_name \in DOMAIN profiles
          THEN categorized.result = "returned"
          ELSE categorized.result = "error"

Count(s, k) == Cardinality({i \in DOMAIN s : s[i] = k})

\* l is s with some of its elements left out.
RECURSIVE IsSubseq(_, _)
IsSubseq(l, s) ==
    IF l = <<>> THEN TRUE
    ELSE IF s = <<>> THEN FALSE
    ELSE IF Head(l) = Head(s) THEN IsSubseq(Tail(l), Tail(s))
    ELSE IsSubseq(l, Tail(s))

\* C14: for a registered profile, every key is in the list of its category
\* as often as in the profile and in no other list, and every list has its
\* keys in the order of the profile.
C14_PartitionByCategory ==
    (categorized # <<>> /\ categorized.profile_name \in DOMAIN profiles) =>
        LET prof == profiles[categorized.profile_name]
            c    == categorized.categories
        IN  \A cat \in {"physical", "attack", "defense"} :
              /\ Range(c[cat]) \subseteq Range(prof)
              /\ \A k \in Range(prof) :
                   Count(c[cat], k) = IF CategoryName(k) = cat
                                        THEN Count(prof, k) ELSE 0
              /\ IsSubseq(c[cat], prof)

\* A profile with a defense key between two physical keys is partitioned.
C14_Witness ==
    /\ categorized # <<>>
    /\ categorized.profile_name = "DMCM"
    /\ Len(profiles["DMCM"]) = 3
    /\ CategoryName(profiles["DMCM"][2]) = "defense"
    /\ Len(categorized.categories.physical) = 2
    /\ categorized.categories.physical[1] # categorized.categories.physical[2]
    /\ Len(categorized.categories.defense) = 1

---------------------------------------------------------------------------
(* Properties of the leaderboard and the chart of both scripts *)

\* C11: in scouting_streamlit.py a row is loaded, ranked or charted only
\* after validate_profiles has gone through every profile and returned, with
\* every key of every profile defined; after a KeyError of the validation
\* nothing is loaded and no leaderboard and no chart exists.
C11_ValidationFirst ==
    app = "streamlit" =>
        /\ (pc # "idle" \/ db # <<>> \/ df # <<>> \/ df_f # <<>>
              \/ df_top # <<>> \/ chart # <<>>) =>
               /\ vp_result = "returned"
               /\ vp_pos > Len(ProfileOrder)
               /\ \A p \in DOMAIN profiles : Range(profiles[p]) \subseteq metrics
        /\ vp_result = "KeyError" =>
               /\ pc = "idle"
               /\ df = <<>>
               /\ df_top = <<>>
               /\ chart = <<>>

\* scouting_streamlit.py has validated, loaded and ranked, and draws a chart.
C11_Witness ==
    /\ app = "streamlit"
    /\ vp_result = "returned"
    /\ pc = "table"
    /\ chart # <<>>

\* C13: the ranked table of scouting_streamlit.py holds the rows inside the
\* filters whose profile key is registered, and no other row.
C13_UnknownProfileExcluded ==
    (app = "streamlit" /\ pc = "ranked") =>
        {df_f[i].index : i \in DOMAIN df_f}
          = {df[i].index : i \in {j \in DOMAIN df :
                                    /\ df[j].in_mask
                                    /\ raw_pos(df[j]) \in DOMAIN profiles}}

\* The category of a plotted key, by the script that plots it.
ChartCategory(a, k) ==
    IF a = "streamlit" THEN CategoryName(k)
    ELSE IF k \in Range(PHYSICAL_METRICS) THEN "physical"
    ELSE IF k \in Range(ATTACK_METRICS) THEN "attack"
    ELSE "defense"

CategoryRank(c) == IF c = "physical" THEN 1 ELSE IF c = "attack" THEN 2 ELSE 3

CategoryBase(c) == IF c = "physical" THEN green ELSE IF c = "attack" THEN red ELSE yellow

\* The metric list the chart is drawn for.
ChartProfile(a, c) ==
    IF a = "streamlit" THEN profiles[c.profile_key]
    ELSE PHYSICAL_METRICS \o ATTACK_METRICS \o DEFENSE_METRICS

PosIn(s, k) == CHOOSE i \in DOMAIN s : s[i] = k

\* C15: the plotted keys are the keys of the profile, physical before attack
\* before defense and inside a category in the order of the profile; the
\* i-th label, value and color are those of the i-th key.
C15_ChartOrder ==
    chart # <<>> =>
        LET prof == ChartProfile(app, chart)
            keys == chart.keys
        IN  /\ Len(keys) = Len(prof)
            /\ Range(keys) = Range(prof)
            /\ \A i, j \in DOMAIN keys :
                 i < j =>
                   LET ci == CategoryRank(ChartCategory(app, keys[i]))
                       cj == CategoryRank(ChartCategory(app, keys[j]))
                   IN  /\ ci <= cj
                       /\ ci = cj => PosIn(prof, keys[i]) < PosIn(prof, keys[j])
            /\ Len(chart.labels) = Len(keys)
            /\ Len(chart.values) = Len(keys)
            /\ Len(chart.colors) >= Len(keys)
            /\ \A i \in DOMAIN keys :
                 /\ chart.labels[i] = IF app = "streamlit" THEN MetricLabel(keys[i])
                                      ELSE LABELS(keys[i])
                 /\ keys[i] \in DOMAIN chart.row.m =>
                      chart.values[i] = chart.row.m[keys[i]]
                 /\ chart.colors[i] =
                      LET base == CategoryBase(ChartCategory(app, keys[i]))
                          v    == ColorScore(chart.values[i])
                      IN  IF app = "streamlit" THEN get_color(v, base)
                          ELSE get_gradient_color(base, v)

\* scouting_streamlit.py draws the chart of a profile that lists a defense
\* key before the physical and attack keys.
C15_Witness ==
    /\ app = "streamlit"
    /\ chart # <<>>
    /\ Len(chart.keys) = 4
    /\ CategoryName(profiles[chart.profile_key][1]) = "defense"
    /\ CategoryName(chart.keys[1]) = "physical"
    /\ CategoryName(chart.keys[2]) = "physical"
    /\ CategoryName(chart.keys[3]) = "attack"
    /\ CategoryName(chart.keys[4]) = "defense"

\* C16: the plotted value of a metric is the value of the row, and 0 if the
\* row has no such key or has a null for it.
C16_MissingPlottedAsZero ==
    chart # <<>> =>
        \A i \in DOMAIN chart.keys :
            chart.values[i] =
                IF /\ chart.keys[i] \in DOMAIN chart.row.m
                   /\ chart.row.m[chart.keys[i]] # NaN
                  THEN chart.row.m[chart.keys[i]]
                  ELSE 0

\* C17: the averages of the caption are the scores of the charted row.
C17_CaptionFromScoredRow ==
    chart # <<>> =>
        /\ ScoreEQ(chart.physical_avg, chart.row.physical)
        /\ ScoreEQ(chart.attack_avg, chart.row.attack)
        /\ ScoreEQ(chart.defense_avg, chart.row.defense)
        /\ ScoreEQ(chart.overall_avg, chart.row.total)

\* The metric columns of a category that the row has: the lists of
\* scouting_app_Bram.py, and in scouting_streamlit.py the keys of the row's
\* profile.
ColumnsOf(a, r, cat) ==
    LET listed == IF a = "streamlit"
                    THEN KeysOfCategory(GetProfile(profile_key(r)), cat)
                  ELSE IF cat = "physical" THEN PHYSICAL_METRICS
                  ELSE IF cat = "attack" THEN ATTACK_METRICS
                  ELSE DEFENSE_METRICS
    IN  SelectSeq(listed, LAMBDA k : k \in DOMAIN r.m)

\* C18: a loaded row with a raw metric value has the category scores and the
\* overall score that are computed from its present metric values.
C18_RecomputedFromRaw ==
    pc = "loaded" =>
        \A i \in DOMAIN df :
            LET r == df[i]
                p == MeanSkipNa(r.m, ColumnsOf(app, r, "physical"))
                a == MeanSkipNa(r.m, ColumnsOf(app, r, "attack"))
                d == MeanSkipNa(r.m, ColumnsOf(app, r, "defense"))
            IN  (\E k \in DOMAIN r.m : r.m[k] # NaN) =>
                    /\ ScoreEQ(r.physical, p)
                    /\ ScoreEQ(r.attack, a)
                    /\ ScoreEQ(r.defense, d)
                    /\ ScoreEQ(r.total, MeanOfScores(<<p, a, d>>))

---------------------------------------------------------------------------
(* Properties of the empty result *)

\* The rows of the loaded frame that are inside the filters, among the first
\* top_n by total, and at or above the three minimums.
Survivors ==
    ApplyMinimums(HeadRows(AssignRank(SortValues(Masked(df), tie_order)), top_n),
                  min_physical, min_attack, min_defense)

\* C21: once the minimums are applied, the run has stopped with the "no
\* players match" message exactly if no row survived; it is then no error,
\* the leaderboard is empty and no chart is drawn; a chart exists only in a
\* run that shows a table with at least one row.
C21_EmptyResultReported ==
    /\ pc \in {"table", "no_match"} =>
         /\ pc = "no_match" <=> Survivors = <<>>
         /\ df_top = Survivors
    /\ pc = "no_match" => chart = <<>>
    /\ chart # <<>> => (pc = "table" /\ Len(df_top) > 0)

\* The run stops with the message although rows were inside the filters: the
\* minimums dropped them all.
C21_Witness ==
    /\ pc = "no_match"
    /\ Len(Masked(df)) > 0
    /\ df_top = <<>>
    /\ chart = <<>>

---------------------------------------------------------------------------
(* Properties of the comparison view *)

\* The players of the first two rows selected in either table.
FirstSelectedNames ==
    { FirstTwo(compare.selected_top)[k].player_name :
        k \in DOMAIN FirstTwo(compare.selected_top) }
      \cup { FirstTwo(compare.selected_search)[k].player_name :
               k \in DOMAIN FirstTwo(compare.selected_search) }

\* C22: a run draws at most two charts, each for a player of the first two
\* rows selected in one of the tables and from a data row of that player.
C22_AtMostTwoCharts ==
    compare # <<>> =>
        /\ Len(compare.charts) <= 2
        /\ \A k \in DOMAIN compare.charts :
             /\ compare.charts[k].player_name \in FirstSelectedNames
             /\ compare.charts[k].row.player_name = compare.charts[k].player_name

\* Three rows are selected in each table and the run has drawn two charts.
C22_Witness ==
    /\ compare # <<>>
    /\ compare.pc = "done"
    /\ Len(compare.selected_top) = 3
    /\ Len(compare.selected_search) = 3
    /\ Len(compare.charts) = 2

\* C26: in scouting_streamlit.py the names and the data rows of the players
\* to compare are equally long and the i-th row is the row of the i-th name,
\* namely the i-th of the selected rows, top table first.
C26_NamesAndRowsAligned ==
    (compare # <<>> /\ app = "streamlit" /\ compare.pc # "select") =>
        LET selected == FirstTwo(FirstTwo(compare.selected_top)
                                   \o FirstTwo(compare.selected_search))
        IN  /\ Len(compare.players_data_to_compare)
                 = Len(compare.players_to_compare)
            /\ \A k \in DOMAIN compare.players_to_compare :
                 /\ k \in DOMAIN compare.players_data_to_compare
                 /\ compare.players_data_to_compare[k] = selected[k]
                 /\ compare.players_to_compare[k] = selected[k].player_name

\* C27: in scouting_app_Bram.py the k-th chart is built from the k-th
\* selected row of the table the charts are drawn for (the search table if
\* it has a selection, else the top table).
C27_ChartOfSelectedRow ==
    (compare # <<>> /\ app = "bram") =>
        LET selected == IF compare.selected_search # <<>>
                          THEN compare.selected_search
                          ELSE compare.selected_top
        IN  \A k \in DOMAIN compare.charts :
              compare.charts[k].row = selected[k]

---------------------------------------------------------------------------
(* Properties of the password gate *)

PasswordCorrect ==
    /\ "password_correct" \in DOMAIN gate.session_state
    /\ gate.session_state["password_correct"]

\* C23: the content is reached only with password_correct true, a finished
\* check without it has stopped the run, and password_correct is true only
\* if APP_PASSWORD is configured and the password entered last equals it.
C23_GateOnlyWithPassword ==
    gate # <<>> =>
        /\ gate.pc = "content" => PasswordCorrect
        /\ (gate.pc = "stopped") => ~PasswordCorrect
        /\ PasswordCorrect =>
             /\ "APP_PASSWORD" \in DOMAIN gate.secrets
             /\ gate.entered = gate.secrets["APP_PASSWORD"]

\* C30: without APP_PASSWORD in the secrets password_correct never becomes
\* true and the content is never reached.
C30_NoSecretNoAccess ==
    (gate # <<>> /\ "APP_PASSWORD" \notin DOMAIN gate.secrets) =>
        /\ ~PasswordCorrect
        /\ gate.pc # "content"

---------------------------------------------------------------------------
(* Properties of the paging *)

\* The runs of rows in all_data follow one another from row 0 to row n - 1:
\* every row of the table is collected, and collected once.
CollectedOnce(all_data, n) ==
    /\ \A i \in 1..Len(all_data) :
         /\ all_data[i][1] <= all_data[i][2]
         /\ all_data[i][1] = (IF i = 1 THEN 0 ELSE all_data[i - 1][2] + 1)
    /\ (IF all_data = <<>> THEN 0 ELSE all_data[Len(all_data)][2] + 1) = n

\* C24: load_data_from_supabase counts the rows, then asks for the pages at
\* the offsets 0, 1000, 2000, ... below total_count, 1000 rows each, none at
\* or past total_count and none at all when total_count = 0; when it returns
\* every row 0..total_count-1 has been collected exactly once.
C24_PagesCoverCount ==
    (paging # <<>> /\ paging.loader = "load_data" /\ paging.pc # "start") =>
        /\ paging.total_count = paging.n_rows
        /\ \A i \in 1..Len(paging.requests) :
             LET range == paging.requests[i].range
             IN  /\ range[1] = (i - 1) * page_size
                 /\ range[2] = range[1] + page_size - 1
                 /\ range[1] < paging.total_count
        /\ paging.total_count = 0 => paging.requests = <<>>
        /\ CollectedOnce(paging.all_data, paging.offset) \/
             /\ paging.offset >= paging.total_count
             /\ CollectedOnce(paging.all_data, paging.total_count)
        /\ paging.pc = "done" =>
             /\ CollectedOnce(paging.all_data, paging.total_count)
             /\ (Len(paging.requests) - 1) * page_size < paging.total_count
                  \/ paging.requests = <<>>

C24_Witness ==
    /\ paging # <<>>
    /\ paging.loader = "load_data"
    /\ paging.pc = "done"
    /\ paging.total_count > page_size
    /\ paging.total_count % page_size # 0
    /\ Len(paging.requests) = (paging.total_count \div page_size) + 1

UrlsLoop ==
    /\ paging # <<>>
    /\ app = "bram"
    /\ paging.loader = "load_impect_urls"

\* C25: the loop of load_impect_urls_from_supabase of scouting_app_Bram.py
\* comes to its end for every table; all pages before the last one asked for
\* were full, the last one is empty or shorter than 1000 rows, and at the
\* end every row of the table has been collected exactly once.
C25_UrlsLoopTerminates ==
    /\ [](UrlsLoop =>
            /\ \A i \in 1..Len(paging.requests) :
                 (i < Len(paging.requests) \/ paging.pc # "done")
                     => PageLen(paging.requests[i].data) = page_size
            /\ paging.pc = "done" =>
                 /\ paging.requests # <<>>
                 /\ PageLen(paging.requests[Len(paging.requests)].data) < page_size
                 /\ CollectedOnce(paging.all_data, paging.n_rows))
    /\ UrlsLoop ~> (paging.pc = "done")

C25_Witness ==
    /\ UrlsLoop
    /\ paging.pc = "done"
    /\ paging.n_rows = MaxPages * page_size
    /\ Len(paging.requests) = MaxPages + 1
    /\ PageLen(paging.requests[MaxPages + 1].data) = 0

---------------------------------------------------------------------------
(* Properties of the colors of the streamlit chart *)

\* C28: the chart of scouting_streamlit.py has one color for every plotted
\* metric, the i-th made of the i-th value and the base color of the i-th
\* metric's category, whatever categories the profile has metrics in.
C28_OneColorPerMetric ==
    (app = "streamlit" /\ chart # <<>>) =>
        /\ Len(chart.colors) = Len(chart.keys)
        /\ \A i \in DOMAIN chart.colors :
             /\ i \in DOMAIN chart.keys
             /\ chart.colors[i] =
                  get_color(ColorScore(chart.values[i]),
                            CategoryBase(CategoryName(chart.keys[i])))

---------------------------------------------------------------------------
(* Properties of the radar *)

\* The name of the trace of a category.
TraceName(cat) ==
    IF cat = "physical" THEN "Fysiek"
    ELSE IF cat = "attack" THEN "Aanval"
    ELSE "Verdediging"

\* C29: the radar has one trace for each of physical, attack and defense
\* that has a metric in the profile, in this order, and the trace is drawn
\* over the metrics get_metrics_for_profile returns for the category.
C29_TracePerCategory ==
    radar # <<>> =>
        LET cats == get_metrics_for_profile(radar.profile_name)
            with_metrics == SelectSeq(<<"physical", "attack", "defense">>,
                                      LAMBDA c : cats[c] # <<>>)
        IN  /\ Len(radar.traces) = Len(with_metrics)
            /\ \A i \in DOMAIN with_metrics :
                 /\ i \in DOMAIN radar.traces
                 /\ radar.traces[i].name = TraceName(with_metrics[i])
                 /\ radar.traces[i].theta =
                      Append(cats[with_metrics[i]], cats[with_metrics[i]][1])

=============================================================================
